---- MODULE Spec2Model ----
(***************************************************************************)
(* TaskHub tenant identity and isolation subsystem.                        *)
(*                                                                         *)
(*   Spec      the provisioning saga (TenantService.createTenant) running  *)
(*             step by step against the tenant registry, the data          *)
(*             partitions and the identity realms, interleaved with the    *)
(*             administrative operations suspend / reactivate / delete.    *)
(*   SpecAuth  the authenticate middleware, one step per await, for        *)
(*             concurrent requests, interleaved with suspend / reactivate. *)
(*   SpecPool  the pg connection pool with query, queryWithTenant and      *)
(*             transactionWithTenant, one step per await.                  *)
(***************************************************************************)
EXTENDS Naturals, Integers, Sequences, FiniteSets, TLC

\* ---------------------------------------------------------------- bounds

\* createTenant calls made in one behaviour (each draws a fresh uuid).
MaxCalls == 2
\* suspend / reactivate / delete calls made in one behaviour.
MaxAdminOps == 1

\* ------------------------------------------------------------ identifiers

NoTenant == 0

\* The tenant the database initialisation script registers.
DemoId == 1

\* Characters a slug is made of; a slug is a sequence of characters.
LowerAlnum == {"a", "b", "d", "e", "m", "o"}
Chars == LowerAlnum \cup {"A", "-", "_"}

\* String.prototype.toLowerCase on one character.
ToLower(c) == IF c = "A" THEN "a" ELSE c

\* s.toLowerCase().replace(/[^a-z0-9]/g, with)
Normalize(s, with) ==
  [i \in DOMAIN s |-> IF ToLower(s[i]) \in LowerAlnum THEN ToLower(s[i]) ELSE with]

\* `tenant_${slug.toLowerCase().replace(/[^a-z0-9]/g, '_')}`
SchemaNameOf(slug) == <<"tenant_">> \o Normalize(slug, "_")

\* slug.toLowerCase().replace(/[^a-z0-9]/g, '-')
RealmNameOf(slug) == Normalize(slug, "-")

\* body('slug').isLength({min: 2, max: 100}).matches(/^[a-z0-9-]+$/)
ValidSlug(s) ==
  /\ Len(s) >= 2
  /\ \A i \in DOMAIN s : s[i] \in LowerAlnum \cup {"-"}

\* Request bodies sent to POST /api/tenants.
DemoSlug == <<"d", "e", "m", "o">>
SlugInputs == {DemoSlug, <<"a", "-">>, <<"A", "b">>, <<"a", "_">>}
NameInputs == {"Acme"}
EmailInputs == {"root@x"}

StandardRoles == {"admin", "manager", "member"}

\* req.headers.authorization of a request to the tenant routes: absent, or the
\* bearer token of a platform administrator.
NoAuthorization == "none"
AdminAuthorization == "Bearer platform-admin"
Authorizations == {NoAuthorization, AdminAuthorization}

\* The routes of the tenant router that provision, suspend, reactivate, delete.
TenantRoutes == {"create", "suspend", "reactivate", "delete"}
NoCallers == [route \in TenantRoutes |-> NoAuthorization]

\* ------------------------------------------------------------------ state

VARIABLES
  tenants,      \* platform.tenants: the set of registry rows
  schemas,      \* existing data partitions: schema name -> rows of its tables
  realms,       \* existing identity realms: realm name -> roles, client, users
  audit_logs,   \* platform.audit_logs: sequence of appended entries
  calls,        \* createTenant calls started so far (the source of fresh ids)
  saga,         \* the createTenant call in flight: its locals and position
  history,      \* summaries of the createTenant calls that returned
  adminOps,     \* suspend / reactivate / delete calls started so far
  del,          \* the deleteTenant call in flight: its locals and position
  callers,      \* the Authorization header of the latest request per tenant route
  reqs,         \* the HTTP requests in the authenticate middleware
  jwksCache,    \* jwksCache: the Map from realm to its cached JWKS fetcher
  conns,        \* the pool's connections: search_path, borrower, open transaction
  work,         \* the callers of the database helpers: locals and position
  stmtLog,      \* the statements run so far, with the connection state they met
  poolOps,      \* database helper calls started so far
  replies,      \* the responses of the project and task handlers run so far
  summary,      \* the getTenantAuditSummary call in flight: its locals and position
  logQuery      \* the AuditService.query call in flight: its locals and position

vars == <<tenants, schemas, realms, audit_logs, calls, saga, history, adminOps, del,
          callers, reqs, jwksCache, conns, work, stmtLog, poolOps,
          replies, summary, logQuery>>

authVars == <<reqs, jwksCache>>

poolVars == <<conns, work, stmtLog, poolOps>>

handlerVars == <<replies, summary, logQuery>>

sagaVars == <<schemas, calls, saga, history, del>>

stores == <<tenants, schemas, realms, audit_logs>>

\* --------------------------------------------------------------- registry

Statuses == {"pending", "active", "suspended"}

\* The UNIQUE / PRIMARY KEY constraints of platform.tenants.
InsertConflict(row) ==
  \E t \in tenants :
    \/ t.id = row.id
    \/ t.name = row.name
    \/ t.slug = row.slug
    \/ t.keycloak_realm = row.keycloak_realm
    \/ t.schema_name = row.schema_name

\* SELECT * FROM platform.tenants WHERE id = $1
RowsById(id) == {t \in tenants : t.id = id}

\* UPDATE platform.tenants SET status = $s WHERE id = $1
WithStatus(id, s) ==
  {IF t.id = id THEN [t EXCEPT !.status = s] ELSE t : t \in tenants}

\* DELETE FROM platform.tenants WHERE id = $1
WithoutRow(id) == {t \in tenants : t.id # id}

\* audit_logs.tenant_id REFERENCES platform.tenants(id): a row that audit
\* entries point at cannot be deleted, and an entry cannot point at no row.
Referenced(id) == \E i \in DOMAIN audit_logs : audit_logs[i].tenant_id = id

AuditInsertable(entry) ==
  entry.tenant_id = NoTenant \/ RowsById(entry.tenant_id) # {}

\* AuditService.log: the INSERT, whose failure is caught and only logged.
AuditLogged(entry, dbOk) ==
  IF dbOk /\ AuditInsertable(entry) THEN Append(audit_logs, entry) ELSE audit_logs

\* ------------------------------------------------------- partitions, realms

Remove(f, k) == [x \in DOMAIN f \ {k} |-> f[x]]

Put(f, k, v) == [x \in DOMAIN f \cup {k} |-> IF x = k THEN v ELSE f[x]]

EmptyRealm == [roles |-> {}, client |-> FALSE, users |-> {}]

\* The roles createRealmRoles posts, in order.
RoleOrder == <<"admin", "manager", "member">>

FirstRoles(k) == {RoleOrder[i] : i \in 1..k}

\* ------------------------------------------------------------------- saga

NoError == [step |-> 0, kind |-> "none"]

NoRow == [id |-> NoTenant]

IdleSaga ==
  [pc |-> "idle", request |-> <<>>, tenantId |-> NoTenant, schemaName |-> <<>>,
   realmName |-> <<>>, tenant |-> NoRow, adminKeycloakId |-> NoTenant,
   stepLog |-> <<>>, compLog |-> <<>>,
   error |-> NoError, cleanupError |-> "none", outcome |-> "none",
   thrown |-> NoError, ret |-> NoRow, made |-> {}]

\* A step that returned: the saga goes on to the next statement.
Succeeded(step, next) ==
  [saga EXCEPT !.pc = next, !.stepLog = Append(@, <<step, "ok">>)]

\* A step that threw: control passes to the catch block of createTenant.
Failed(step, kind) ==
  [saga EXCEPT !.pc = "cleanup_row", !.stepLog = Append(@, <<step, "fail">>),
               !.error = [step |-> step, kind |-> kind]]

\* createTenant up to its first await: generates the identifiers.
StartCreate(name, slug, email) ==
  /\ saga.pc \in {"idle", "done"}
  /\ calls < MaxCalls
  /\ ValidSlug(slug)
  /\ calls' = calls + 1
  /\ saga' = [IdleSaga EXCEPT
       !.pc = "step1",
       !.request = [name |-> name, slug |-> slug, adminEmail |-> email],
       !.tenantId = DemoId + calls + 1,
       !.schemaName = SchemaNameOf(slug),
       !.realmName = RealmNameOf(slug)]
  /\ UNCHANGED <<authVars, poolVars, handlerVars, stores, history, adminOps, del>>

NewRow ==
  [id |-> saga.tenantId, name |-> saga.request.name, slug |-> saga.request.slug,
   keycloak_realm |-> saga.realmName, schema_name |-> saga.schemaName,
   status |-> "pending"]

\* Step 1: INSERT INTO platform.tenants ... 'pending' RETURNING *
Step1 ==
  /\ saga.pc = "step1"
  /\ \/ /\ InsertConflict(NewRow)
        /\ saga' = Failed(1, "conflict")
        /\ UNCHANGED tenants
     \/ /\ ~InsertConflict(NewRow)
        /\ tenants' = tenants \cup {NewRow}
        /\ saga' = [Succeeded(1, "step2") EXCEPT !.tenant = NewRow,
                                                 !.made = @ \cup {"row"}]
     \/ /\ saga' = Failed(1, "fault")
        /\ UNCHANGED tenants
  /\ UNCHANGED <<authVars, poolVars, handlerVars, callers, schemas, realms, audit_logs, calls, history, adminOps, del>>

\* Step 2: db.createTenantSchema -> platform.create_tenant_schema. On a schema
\* that exists the ADD CONSTRAINT statements fail and the call changes nothing.
Step2 ==
  /\ saga.pc = "step2"
  /\ \/ /\ saga.schemaName \in DOMAIN schemas
        /\ saga' = Failed(2, "conflict")
        /\ UNCHANGED schemas
     \/ /\ saga.schemaName \notin DOMAIN schemas
        /\ schemas' = Put(schemas, saga.schemaName, {})
        /\ saga' = [Succeeded(2, "step3") EXCEPT !.made = @ \cup {"schema"}]
     \/ /\ saga' = Failed(2, "fault")
        /\ UNCHANGED schemas
  /\ UNCHANGED <<authVars, poolVars, handlerVars, callers, tenants, realms, audit_logs, calls, history, adminOps, del>>

\* Step 3: keycloakService.createRealm; a 409 is logged and treated as success.
Step3 ==
  /\ saga.pc = "step3"
  /\ \/ /\ saga.realmName \in DOMAIN realms
        /\ saga' = Succeeded(3, "step4")
        /\ UNCHANGED realms
     \/ /\ saga.realmName \notin DOMAIN realms
        /\ realms' = Put(realms, saga.realmName, EmptyRealm)
        /\ saga' = [Succeeded(3, "step4") EXCEPT !.made = @ \cup {"realm"}]
     \/ /\ saga' = Failed(3, "fault")
        /\ UNCHANGED realms
  /\ UNCHANGED <<authVars, poolVars, handlerVars, callers, tenants, schemas, audit_logs, calls, history, adminOps, del>>

\* Step 4: keycloakService.createRealmRoles; a role that exists is skipped, any
\* other failure is rethrown after the roles posted before it.
Step4 ==
  /\ saga.pc = "step4"
  /\ \/ /\ saga.realmName \notin DOMAIN realms
        /\ saga' = Failed(4, "missing")
        /\ UNCHANGED realms
     \/ /\ saga.realmName \in DOMAIN realms
        /\ realms' = [realms EXCEPT ![saga.realmName].roles = @ \cup StandardRoles]
        /\ saga' = Succeeded(4, "step5")
     \/ /\ saga.realmName \in DOMAIN realms
        /\ \E k \in 0..2 :
             realms' = [realms EXCEPT ![saga.realmName].roles = @ \cup FirstRoles(k)]
        /\ saga' = Failed(4, "fault")
  /\ UNCHANGED <<authVars, poolVars, handlerVars, callers, tenants, schemas, audit_logs, calls, history, adminOps, del>>

\* Step 5: keycloakService.createClient: POST the client, then GET it back.
Step5 ==
  /\ saga.pc = "step5"
  /\ \/ /\ saga.realmName \notin DOMAIN realms
        /\ saga' = Failed(5, "missing")
        /\ UNCHANGED realms
     \/ /\ saga.realmName \in DOMAIN realms
        /\ realms[saga.realmName].client
        /\ saga' = Failed(5, "conflict")
        /\ UNCHANGED realms
     \/ /\ saga.realmName \in DOMAIN realms
        /\ ~realms[saga.realmName].client
        /\ realms' = [realms EXCEPT ![saga.realmName].client = TRUE]
        /\ \/ saga' = Succeeded(5, "step6")
           \/ saga' = Failed(5, "fault")
     \/ /\ saga' = Failed(5, "fault")
        /\ UNCHANGED realms
  /\ UNCHANGED <<authVars, poolVars, handlerVars, callers, tenants, schemas, audit_logs, calls, history, adminOps, del>>

UserOf(realm, email) == {u \in realms[realm].users : u.email = email}

\* Step 6: keycloakService.createUser: POST the user, GET it back, GET the admin
\* role and POST the role mapping.  Any of the four requests may be refused
\* (an existing user and a missing role included); a refusal after the POST
\* leaves the user in the realm without the role.
Step6 ==
  /\ saga.pc = "step6"
  /\ LET r == saga.realmName
         e == saga.request.adminEmail
         u == [email |-> e, id |-> saga.tenantId, roles |-> {}]
     IN
     \/ /\ r \notin DOMAIN realms
        /\ saga' = Failed(6, "missing")
        /\ UNCHANGED realms
     \/ /\ r \in DOMAIN realms
        /\ UserOf(r, e) = {}
        /\ \/ /\ "admin" \in realms[r].roles
              /\ realms' = [realms EXCEPT ![r].users =
                              @ \cup {[u EXCEPT !.roles = {"admin"}]}]
              /\ saga' = [Succeeded(6, "step7") EXCEPT !.adminKeycloakId = u.id]
           \/ /\ realms' = [realms EXCEPT ![r].users = @ \cup {u}]
              /\ saga' = Failed(6, "fault")
     \/ /\ saga' = Failed(6, "fault")
        /\ UNCHANGED realms
  /\ UNCHANGED <<authVars, poolVars, handlerVars, callers, tenants, schemas, audit_logs, calls, history, adminOps, del>>

\* Step 7: db.queryWithTenant(schemaName, INSERT INTO users ...).
Step7 ==
  /\ saga.pc = "step7"
  /\ \/ /\ saga.schemaName \notin DOMAIN schemas
        /\ saga' = Failed(7, "missing")
        /\ UNCHANGED schemas
     \/ /\ saga.schemaName \in DOMAIN schemas
        /\ saga.adminKeycloakId \notin schemas[saga.schemaName]
        /\ schemas' = [schemas EXCEPT ![saga.schemaName] = @ \cup {saga.adminKeycloakId}]
        /\ saga' = Succeeded(7, "step8")
     \/ /\ saga' = Failed(7, "fault")
        /\ UNCHANGED schemas
  /\ UNCHANGED <<authVars, poolVars, handlerVars, callers, tenants, realms, audit_logs, calls, history, adminOps, del>>

\* Step 8 left out: the saga goes from the local user record straight to the audit
\* entry, and the registry row stays as it is.
Step8Skipped ==
  /\ saga.pc = "step8"
  /\ saga' = [saga EXCEPT !.pc = "audit"]
  /\ UNCHANGED <<authVars, poolVars, handlerVars, callers, stores, calls, history, adminOps, del>>

\* Step 8: UPDATE platform.tenants SET status = 'active' WHERE id = $1
Step8 ==
  /\ saga.pc = "step8"
  /\ \/ /\ tenants' = WithStatus(saga.tenantId, "active")
        /\ saga' = Succeeded(8, "audit")
     \/ /\ saga' = Failed(8, "fault")
        /\ UNCHANGED tenants
  /\ UNCHANGED <<authVars, poolVars, handlerVars, callers, schemas, realms, audit_logs, calls, history, adminOps, del>>

Summary(s) ==
  [slug |-> s.request.slug, tenantId |-> s.tenantId, outcome |-> s.outcome,
   error |-> s.error,
   completed |-> {s.stepLog[i][1] : i \in {j \in DOMAIN s.stepLog : s.stepLog[j][2] = "ok"}}]

\* Returning from createTenant, with a tenant or with an error.
Returned(s) == [s EXCEPT !.pc = "done"]

\* The audit write not wrapped in log's try / catch: its failure is thrown
\* inside createTenant's try block and starts the compensation.
AuditAndReturnStrict ==
  /\ saga.pc = "audit"
  /\ LET entry == [tenant_id |-> saga.tenantId, action |-> "TENANT_CREATED"]
         s == Returned([saga EXCEPT !.outcome = "ok",
                                    !.ret = [saga.tenant EXCEPT !.status = "active"]])
     IN  \/ /\ AuditInsertable(entry)
            /\ audit_logs' = Append(audit_logs, entry)
            /\ saga' = s
            /\ history' = Append(history, Summary(s))
         \/ /\ saga' = Failed(9, "fault")
            /\ UNCHANGED <<audit_logs, history>>
  /\ UNCHANGED <<authVars, poolVars, handlerVars, callers, tenants, schemas, realms, calls, adminOps, del>>

\* Step 9 and the return: auditService.log(TENANT_CREATED), then
\* return {...tenant, status: 'active'}.
AuditAndReturn ==
  /\ saga.pc = "audit"
  /\ \E dbOk \in BOOLEAN :
       audit_logs' = AuditLogged([tenant_id |-> saga.tenantId,
                                  action |-> "TENANT_CREATED"], dbOk)
  /\ LET s == Returned([saga EXCEPT !.outcome = "ok",
                                   !.ret = [saga.tenant EXCEPT !.status = "active"]])
     IN /\ saga' = s
        /\ history' = Append(history, Summary(s))
  /\ UNCHANGED <<authVars, poolVars, handlerVars, callers, tenants, schemas, realms, calls, adminOps, del>>

\* The cleanup attempt not wrapped in its own try / catch: its failure replaces
\* the provisioning error.
RaisedErrorMasked(original, cleanupError) ==
  IF cleanupError # "none" THEN [step |-> 0, kind |-> cleanupError] ELSE original

\* The error createTenant rethrows once the cleanup attempt is over: the cleanup's
\* own failure is caught and logged, then `throw error`.
RaisedError(original, cleanupError) == original

ReturnError(s) ==
  Returned([s EXCEPT !.outcome = "error",
                     !.thrown = RaisedError(s.error, s.cleanupError)])

\* cleanupFailedProvisioning, first statement: DELETE the registry row. Its
\* failure leaves cleanupFailedProvisioning at once.
CleanupRow ==
  /\ saga.pc = "cleanup_row"
  /\ \/ /\ ~Referenced(saga.tenantId)
        /\ tenants' = WithoutRow(saga.tenantId)
        /\ saga' = [saga EXCEPT !.pc = "cleanup_schema",
                                !.compLog = Append(@, <<"row", "ok">>)]
        /\ UNCHANGED history
     \/ /\ LET s == ReturnError([saga EXCEPT !.compLog = Append(@, <<"row", "fail">>),
                                            !.cleanupError = "cleanup"])
           IN /\ saga' = s
              /\ history' = Append(history, Summary(s))
        /\ UNCHANGED tenants
  /\ UNCHANGED <<authVars, poolVars, handlerVars, callers, schemas, realms, audit_logs, calls, adminOps, del>>

\* The drop addressed to the realm name instead of the schema name.
CleanupSchemaWrongName ==
  /\ saga.pc = "cleanup_schema"
  /\ schemas' = Remove(schemas, saga.realmName)
  /\ saga' = [saga EXCEPT !.pc = "cleanup_realm",
                          !.compLog = Append(@, <<"schema", "ok">>)]
  /\ UNCHANGED <<authVars, poolVars, handlerVars, callers, tenants, realms, audit_logs, calls, history, adminOps, del>>

\* cleanupFailedProvisioning: db.dropTenantSchema (DROP SCHEMA IF EXISTS ...
\* CASCADE) inside try / catch.
CleanupSchema ==
  /\ saga.pc = "cleanup_schema"
  /\ \/ /\ schemas' = Remove(schemas, saga.schemaName)
        /\ saga' = [saga EXCEPT !.pc = "cleanup_realm",
                                !.compLog = Append(@, <<"schema", "ok">>)]
     \/ /\ saga' = [saga EXCEPT !.pc = "cleanup_realm",
                                !.compLog = Append(@, <<"schema", "fail">>)]
        /\ UNCHANGED schemas
  /\ UNCHANGED <<authVars, poolVars, handlerVars, callers, tenants, realms, audit_logs, calls, history, adminOps, del>>

\* cleanupFailedProvisioning: keycloakService.deleteRealm inside try / catch,
\* then createTenant rethrows.
CleanupRealm ==
  /\ saga.pc = "cleanup_realm"
  /\ \E res \in {"ok", "absent", "fail"} :
       /\ res = "ok" => saga.realmName \in DOMAIN realms
       /\ res = "absent" => saga.realmName \notin DOMAIN realms
       /\ realms' = IF res = "ok" THEN Remove(realms, saga.realmName) ELSE realms
       /\ LET s == ReturnError([saga EXCEPT !.compLog = Append(@, <<"realm", res>>)])
          IN /\ saga' = s
             /\ history' = Append(history, Summary(s))
  /\ UNCHANGED <<authVars, poolVars, handlerVars, callers, tenants, schemas, audit_logs, calls, adminOps, del>>

\* router.post('/', validate(createTenantValidation), asyncHandler(...)): the
\* chain holds the body validation and the handler; the handler calls
\* createTenant with the body and does not read the Authorization header.
PostTenant(authorization, name, slug, email) ==
  /\ StartCreate(name, slug, email)
  /\ callers' = [callers EXCEPT !["create"] = authorization]

CreateTenant ==
  \/ \E authorization \in Authorizations :
       \E name \in NameInputs, slug \in SlugInputs, email \in EmailInputs :
         PostTenant(authorization, name, slug, email)
  \/ Step1 \/ Step2 \/ Step3 \/ Step4 \/ Step5 \/ Step6 \/ Step7 \/ Step8
  \/ AuditAndReturn
  \/ CleanupRow \/ CleanupSchema \/ CleanupRealm


\* ------------------------------------------------- administrative operations

\* Tenant ids a caller of the admin endpoints can name: any uuid handed out.
KnownIds == DemoId..(DemoId + calls)

\* suspendTenant: getTenantById (throws when absent), the UPDATE, the audit entry.
SuspendTenant(tenantId) ==
  /\ adminOps < MaxAdminOps
  /\ RowsById(tenantId) # {}
  /\ adminOps' = adminOps + 1
  /\ \/ /\ tenants' = WithStatus(tenantId, "suspended")
        /\ \E dbOk \in BOOLEAN :
             audit_logs' = AuditLogged([tenant_id |-> tenantId,
                                        action |-> "TENANT_SUSPENDED"], dbOk)
     \/ UNCHANGED <<tenants, audit_logs>>
  /\ UNCHANGED <<authVars, poolVars, handlerVars, schemas, realms, calls, saga, history, del>>

\* reactivateTenant: the UPDATE (no existence check), then the audit entry.
ReactivateTenant(tenantId) ==
  /\ adminOps < MaxAdminOps
  /\ adminOps' = adminOps + 1
  /\ \/ /\ tenants' = WithStatus(tenantId, "active")
        /\ \E dbOk \in BOOLEAN :
             audit_logs' = AuditLogged([tenant_id |-> tenantId,
                                        action |-> "TENANT_REACTIVATED"], dbOk)
     \/ UNCHANGED <<tenants, audit_logs>>
  /\ UNCHANGED <<authVars, poolVars, handlerVars, schemas, realms, calls, saga, history, del>>

\* router.post('/:id/suspend', validate([...]), asyncHandler(...)).
PostSuspend(authorization, tenantId) ==
  /\ SuspendTenant(tenantId)
  /\ callers' = [callers EXCEPT !["suspend"] = authorization]

\* router.post('/:id/reactivate', validate([...]), asyncHandler(...)).
PostReactivate(authorization, tenantId) ==
  /\ ReactivateTenant(tenantId)
  /\ callers' = [callers EXCEPT !["reactivate"] = authorization]

IdleDelete == [pc |-> "idle", tenant |-> NoRow]

\* deleteTenant: getTenantById, throwing 'Tenant not found' when absent.
DeleteStart(tenantId) ==
  /\ del.pc = "idle"
  /\ adminOps < MaxAdminOps
  /\ \E t \in RowsById(tenantId) :
       del' = [IdleDelete EXCEPT !.pc = "realm", !.tenant = t]
  /\ adminOps' = adminOps + 1
  /\ UNCHANGED <<authVars, poolVars, handlerVars, stores, calls, saga, history>>

\* deleteTenant: keycloakService.deleteRealm inside try / catch.
DeleteRealm ==
  /\ del.pc = "realm"
  /\ \E res \in {"ok", "absent", "fail"} :
       /\ res = "ok" => del.tenant.keycloak_realm \in DOMAIN realms
       /\ res = "absent" => del.tenant.keycloak_realm \notin DOMAIN realms
       /\ realms' = IF res = "ok" THEN Remove(realms, del.tenant.keycloak_realm)
                                  ELSE realms
       /\ del' = [del EXCEPT !.pc = "schema"]
  /\ UNCHANGED <<authVars, poolVars, handlerVars, callers, tenants, schemas, audit_logs, calls, saga, history, adminOps>>

\* The partition drop made best-effort like the realm delete: a failed drop is
\* passed over and the operation goes on to the registry row.
DeleteSchemaBestEffort ==
  /\ del.pc = "schema"
  /\ \/ schemas' = Remove(schemas, del.tenant.schema_name)
     \/ UNCHANGED schemas
  /\ del' = [del EXCEPT !.pc = "row"]
  /\ UNCHANGED <<authVars, poolVars, handlerVars, callers, tenants, realms, audit_logs, calls, saga, history, adminOps>>

\* deleteTenant: db.dropTenantSchema, whose failure ends the operation.
DeleteSchema ==
  /\ del.pc = "schema"
  /\ \/ /\ schemas' = Remove(schemas, del.tenant.schema_name)
        /\ del' = [del EXCEPT !.pc = "row"]
     \/ /\ del' = IdleDelete
        /\ UNCHANGED schemas
  /\ UNCHANGED <<authVars, poolVars, handlerVars, callers, tenants, realms, audit_logs, calls, saga, history, adminOps>>

\* deleteTenant: DELETE FROM platform.tenants WHERE id = $1
DeleteRow ==
  /\ del.pc = "row"
  /\ \/ /\ ~Referenced(del.tenant.id)
        /\ tenants' = WithoutRow(del.tenant.id)
        /\ del' = [del EXCEPT !.pc = "audit"]
     \/ /\ del' = IdleDelete
        /\ UNCHANGED tenants
  /\ UNCHANGED <<authVars, poolVars, handlerVars, callers, schemas, realms, audit_logs, calls, saga, history, adminOps>>

\* deleteTenant: auditService.log(TENANT_DELETED), with no tenantId.
DeleteAudit ==
  /\ del.pc = "audit"
  /\ \E dbOk \in BOOLEAN :
       audit_logs' = AuditLogged([tenant_id |-> NoTenant,
                                  action |-> "TENANT_DELETED"], dbOk)
  /\ del' = IdleDelete
  /\ UNCHANGED <<authVars, poolVars, handlerVars, callers, tenants, schemas, realms, calls, saga, history, adminOps>>

\* router.delete('/:id', validate([...]), asyncHandler(...)).
DeleteRoute(authorization, tenantId) ==
  /\ DeleteStart(tenantId)
  /\ callers' = [callers EXCEPT !["delete"] = authorization]

DeleteTenant ==
  \/ \E authorization \in Authorizations : \E id \in KnownIds :
       DeleteRoute(authorization, id)
  \/ DeleteRealm \/ DeleteSchema \/ DeleteRow \/ DeleteAudit

\* ---------------------------------------------------------- specification

\* No request is in the middleware; the JWKS cache is the empty Map.
AuthAtRest ==
  /\ reqs = <<>>
  /\ jwksCache = <<>>

\* No caller is in the database helpers.
PoolAtRest ==
  /\ conns = <<>>
  /\ work = <<>>
  /\ stmtLog = {}
  /\ poolOps = 0

IdleSummary == [pc |-> "idle"]

IdleQuery == [pc |-> "idle"]

\* No project, task or audit-report handler has run.
HandlersAtRest ==
  /\ replies = <<>>
  /\ summary = IdleSummary
  /\ logQuery = IdleQuery

\* No createTenant or deleteTenant call is in flight.
SagaAtRest ==
  /\ calls = 0
  /\ saga = IdleSaga
  /\ history = <<>>
  /\ del = IdleDelete
  /\ callers = NoCallers

\* The demo tenant of the initialisation script: its registry row (status by
\* default 'active'), its schema, and the realm the row names.
DemoTenant ==
  [id |-> DemoId, name |-> "Demo Company", slug |-> DemoSlug,
   keycloak_realm |-> <<"d", "e", "m", "o">>,
   schema_name |-> <<"tenant_", "d", "e", "m", "o">>, status |-> "active"]

DemoRealm == [roles |-> StandardRoles, client |-> TRUE, users |-> {}]

Init ==
  /\ tenants = {DemoTenant}
  /\ schemas = Put(<<>>, DemoTenant.schema_name, {})
  /\ realms = Put(<<>>, DemoTenant.keycloak_realm, DemoRealm)
  /\ audit_logs = <<>>
  /\ calls = 0
  /\ saga = IdleSaga
  /\ history = <<>>
  /\ adminOps = 0
  /\ del = IdleDelete
  /\ callers = NoCallers
  /\ AuthAtRest
  /\ PoolAtRest
  /\ HandlersAtRest

Next ==
  \/ CreateTenant
  \/ \E authorization \in Authorizations : \E id \in KnownIds :
       PostSuspend(authorization, id)
  \/ \E authorization \in Authorizations : \E id \in KnownIds :
       PostReactivate(authorization, id)
  \/ DeleteTenant

Spec == Init /\ [][Next]_vars

\* ------------------------------------------------------ provisioning claims

Compensating == saga.pc \in {"cleanup_row", "cleanup_schema", "cleanup_realm"}

SagaReturned == saga.pc = "done"

\* C4: a partition or realm disappears only in deleteTenant of the tenant that
\* owns it or in the compensation of the createTenant call that created it, and
\* a compensating createTenant leaves every other tenant's registry row alone.
C4_OnlyOwnResourcesDestroyed ==
  [][ /\ \A s \in (DOMAIN schemas) \ (DOMAIN schemas') :
           \/ del.pc = "schema" /\ del'.pc # "schema" /\ del.tenant.schema_name = s
           \/ Compensating /\ saga' # saga /\ "schema" \in saga.made
      /\ \A r \in (DOMAIN realms) \ (DOMAIN realms') :
           \/ del.pc = "realm" /\ del'.pc # "realm" /\ del.tenant.keycloak_realm = r
           \/ Compensating /\ saga' # saga /\ "realm" \in saga.made
      /\ (Compensating /\ saga' # saga) =>
           \A t \in tenants : t.id # saga.tenantId => t \in tenants'
    ]_vars

\* C6: once createTenant has returned, the registry holds no pending row for the
\* tenant id of that call.
C6_NoPendingRowAfterReturn ==
  SagaReturned => \A t \in RowsById(saga.tenantId) : t.status # "pending"

StepsInOrder == [i \in 1..8 |-> <<i, "ok">>]

CompensationSucceeded ==
  /\ Len(saga.compLog) = 3
  /\ \A i \in DOMAIN saga.compLog : saga.compLog[i][2] \in {"ok", "absent"}

\* C8: when a step failed and the compensation actions succeeded, createTenant
\* returns with no registry row for the new tenant id, no partition with the
\* derived identifier and no realm with the derived name, whichever step failed
\* and whether or not the partition and the realm had been created.
C8_CompensationRemovesEverything ==
  (SagaReturned /\ saga.outcome = "error" /\ CompensationSucceeded) =>
    /\ RowsById(saga.tenantId) = {}
    /\ saga.schemaName \notin DOMAIN schemas
    /\ saga.realmName \notin DOMAIN realms
    /\ saga.cleanupError = "none"

C8_Witness ==
  /\ SagaReturned /\ saga.outcome = "error" /\ CompensationSucceeded
  /\ saga.error.step = 6
  /\ saga.made = {"row", "schema", "realm"}

\* C9: the error createTenant raises is the failure of the provisioning step,
\* whatever the compensation actions did.
C9_OriginalErrorRaised ==
  (SagaReturned /\ saga.outcome = "error") =>
    /\ saga.thrown = saga.error
    /\ saga.error.step \in 1..8
    /\ saga.stepLog[Len(saga.stepLog)] = <<saga.error.step, "fail">>

C9_Witness ==
  /\ SagaReturned /\ saga.outcome = "error"
  /\ saga.cleanupError # "none"
  /\ saga.error.step = 3

\* C10: a createTenant for a slug whose previous run failed beyond step 1 does
\* not fail on "already exists" at a step the previous run had completed, and
\* the registry never holds two rows with one slug, realm or partition.
C10_RerunMeetsNoConflict ==
  /\ \A i \in DOMAIN history : \A j \in DOMAIN history :
       ( /\ j = i + 1
         /\ history[i].slug = history[j].slug
         /\ history[i].outcome = "error" /\ history[i].error.step > 1
         /\ history[j].outcome = "error" )
       => ~( /\ history[j].error.kind = "conflict"
             /\ history[j].error.step \in history[i].completed )
  /\ \A t \in tenants : \A u \in tenants :
       (t.slug = u.slug \/ t.keycloak_realm = u.keycloak_realm
          \/ t.schema_name = u.schema_name) => t = u

\* createTenant returned the tenant with this id.
CreatedOk(id) ==
  \E i \in DOMAIN history : history[i].tenantId = id /\ history[i].outcome = "ok"

\* deleteTenant returns or throws in this step.
DeleteEnds == del.pc # "idle" /\ del'.pc = "idle"

\* C11: when deleteTenant(T) ends for a tenant T that createTenant returned
\* successfully, there is no registry row for T, no partition with T's schema
\* name and no realm with T's realm name.
C11_RoundTripLeavesNothing ==
  [][ (DeleteEnds /\ CreatedOk(del.tenant.id)) =>
        /\ \A t \in tenants' : t.id # del.tenant.id
        /\ del.tenant.schema_name \notin DOMAIN schemas'
        /\ del.tenant.keycloak_realm \notin DOMAIN realms'
    ]_vars

\* The round trip with no step failing but the last: the realm and the
\* partition are gone, and the row stays because the TENANT_CREATED audit
\* entry refers to it.
C11_Witness ==
  /\ calls = 1 /\ adminOps = 1 /\ del.pc = "idle"
  /\ \E t \in tenants :
       /\ CreatedOk(t.id) /\ Referenced(t.id)
       /\ t.schema_name \notin DOMAIN schemas
       /\ t.keycloak_realm \notin DOMAIN realms

\* The last audit entry, when this step appended one.
Appended ==
  IF Len(audit_logs') = Len(audit_logs) + 1
    THEN {audit_logs'[Len(audit_logs')].action} ELSE {}

\* C12: in deleteTenant the step after the realm delete is the partition drop,
\* whether or not the realm was deleted; a partition drop that failed ends the
\* operation with the registry untouched and no audit entry; the registry row
\* is deleted only by the step that follows a successful partition drop, and
\* TENANT_DELETED is appended only by the step that follows the row's
\* deletion, when the registry holds no row with the tenant's id.
C12_DeleteOrder ==
  /\ [][ /\ (del.pc # "schema" /\ del'.pc = "schema") => del.pc = "realm"
         /\ (del.pc # "row" /\ del'.pc = "row") => del.pc = "schema"
         /\ (del.pc # "audit" /\ del'.pc = "audit") => del.pc = "row"
         /\ (del.pc = "realm" /\ del' # del) => del'.pc = "schema"
         /\ (del.pc = "schema" /\ del' # del) =>
              \/ del'.pc = "row" /\ del.tenant.schema_name \notin DOMAIN schemas'
              \/ del'.pc = "idle" /\ tenants' = tenants /\ audit_logs' = audit_logs
         /\ (del' # del /\ tenants' # tenants) => del.pc = "row"
         /\ (del.pc = "row" /\ del' # del) =>
              \/ del'.pc = "audit" /\ \A t \in tenants' : t.id # del.tenant.id
              \/ del'.pc = "idle" /\ tenants' = tenants /\ audit_logs' = audit_logs
         /\ ("TENANT_DELETED" \in Appended) =>
              del.pc = "audit" /\ RowsById(del.tenant.id) = {}
     ]_vars
  /\ [](del.pc = "audit" => RowsById(del.tenant.id) = {})

\* The realm delete failed and the operation went on to delete the row.
C12_Witness ==
  /\ del.pc = "audit"
  /\ del.tenant.keycloak_realm \in DOMAIN realms
  /\ RowsById(del.tenant.id) = {}

\* The status of the row with this id changes from a to b in this step.
StatusStep(id, a, b) ==
  /\ \E t \in tenants : t.id = id /\ t.status = a
  /\ \E t \in tenants' : t.id = id /\ t.status = b

\* The step is step 8 of the saga provisioning this tenant, steps 1 to 7 done.
ActivatedBySaga(id) ==
  /\ saga.pc = "step8" /\ saga'.pc = "audit" /\ saga.tenantId = id
  /\ saga.stepLog = [i \in 1..7 |-> <<i, "ok">>]

\* C13: a tenant's status changes only from pending to active, by step 8 of
\* its saga after steps 1 to 7 succeeded, from active to suspended, and from
\* suspended to active by a reactivate call (a step that is not the saga's).
C13_StatusTransitions ==
  [][\A id \in KnownIds : \A a \in Statuses : \A b \in Statuses \ {a} :
        StatusStep(id, a, b) =>
          \/ a = "pending" /\ b = "active" /\ ActivatedBySaga(id)
          \/ a = "active" /\ b = "suspended"
          \/ a = "suspended" /\ b = "active" /\ saga' = saga
    ]_vars


\* The tenant route whose request a step that changes the registry belongs to.
RouteOfStep ==
  IF saga' # saga THEN "create"
  ELSE IF del' # del THEN "delete"
  ELSE IF \E t \in tenants' \ tenants : t.status = "suspended" THEN "suspend"
  ELSE "reactivate"

\* C14: the provisioning, suspend, reactivate and delete endpoints are
\* privileged: a step changes the registry (a tenant's existence or status)
\* on behalf of a request to one of them only if that request carried the
\* credentials of a privileged caller; a request without credentials never
\* creates, suspends, reactivates or deletes a tenant.
C14_OnlyPrivilegedCallersChangeTenants ==
  [][tenants' # tenants => callers'[RouteOfStep] = AdminAuthorization]_vars

\* A request without an Authorization header has suspended the demo tenant.
C14_Witness ==
  /\ callers["suspend"] = NoAuthorization
  /\ adminOps = 1
  /\ \E t \in tenants : t.id = DemoId /\ t.status = "suspended"


\* C20: a step that writes an audit entry completes its operation with one
\* result, whether the write appends the entry or fails and appends nothing:
\* createTenant returns the active tenant (no error, no compensation),
\* deleteTenant returns, suspendTenant and reactivateTenant leave the status
\* they set; no step appends more than its one entry.
C20_AuditFailureNeverAborts ==
  [][ /\ (saga.pc = "audit" /\ saga' # saga) =>
           /\ saga' = Returned([saga EXCEPT !.outcome = "ok",
                                  !.ret = [saga.tenant EXCEPT !.status = "active"]])
           /\ history' = Append(history, Summary(saga'))
           /\ saga'.thrown = NoError
           /\ <<tenants, schemas, realms>>' = <<tenants, schemas, realms>>
      /\ (del.pc = "audit" /\ del' # del) =>
           /\ del' = IdleDelete
           /\ <<tenants, schemas, realms>>' = <<tenants, schemas, realms>>
      /\ (adminOps' # adminOps /\ del' = del) =>
           \E id \in KnownIds : \E status \in {"suspended", "active"} :
             /\ tenants' \in {tenants, WithStatus(id, status)}
             /\ audit_logs' # audit_logs =>
                  /\ tenants' = WithStatus(id, status)
                  /\ audit_logs'[Len(audit_logs')].tenant_id = id
      /\ Len(audit_logs') \in {Len(audit_logs), Len(audit_logs) + 1}
      /\ \A i \in DOMAIN audit_logs : audit_logs'[i] = audit_logs[i]
    ]_vars

\* createTenant has returned the active tenant although its TENANT_CREATED
\* entry was not written, and the tenant is still registered and active.
C20_Witness ==
  /\ saga.pc = "done" /\ saga.outcome = "ok"
  /\ saga.ret.status = "active"
  /\ \A i \in DOMAIN audit_logs : audit_logs[i].action # "TENANT_CREATED"
  /\ \E t \in tenants : t.id = saga.tenantId /\ t.status = "active"


CompensationOrder == [i \in DOMAIN saga.compLog |-> saga.compLog[i][1]]

\* C27: the compensation of a failed provisioning runs in reverse order of
\* creation, the realm first, then the partition, the registry row last; so a
\* createTenant that returned its error with the new registry row deleted by
\* the compensation has left neither the partition nor the realm it created.
C27_CompensationInReverse ==
  /\ \A i \in DOMAIN saga.compLog :
       CompensationOrder[i] = <<"realm", "schema", "row">>[i]
  /\ ( /\ SagaReturned /\ saga.outcome = "error"
       /\ \E i \in DOMAIN saga.compLog : saga.compLog[i] = <<"row", "ok">> ) =>
       /\ "schema" \in saga.made => saga.schemaName \notin DOMAIN schemas
       /\ "realm" \in saga.made => saga.realmName \notin DOMAIN realms

\* createTenant has returned its error: the row is deleted, the drop of the
\* partition failed, and the partition and the realm it created remain.
C27_Witness ==
  /\ SagaReturned /\ saga.outcome = "error"
  /\ saga.compLog[1] = <<"row", "ok">>
  /\ saga.compLog[2] = <<"schema", "fail">>
  /\ saga.compLog[3] = <<"realm", "fail">>
  /\ saga.made = {"row", "schema", "realm"}
  /\ RowsById(saga.tenantId) = {}
  /\ saga.schemaName \in DOMAIN schemas /\ saga.realmName \in DOMAIN realms


\* No createTenant or deleteTenant call is in flight: every call has returned.
AllReturned == saga.pc \in {"idle", "done"} /\ del.pc = "idle"

\* C28: whenever every operation has returned, each registry row with status
\* active or suspended has its data partition and its identity realm.
C28_RegisteredTenantsKeepResources ==
  AllReturned =>
    \A t \in tenants : t.status \in {"active", "suspended"} =>
      /\ t.schema_name \in DOMAIN schemas
      /\ t.keycloak_realm \in DOMAIN realms

\* deleteTenant of the demo tenant has returned: its realm and its partition
\* are destroyed and its registry row is still there, active.
C28_Witness ==
  /\ AllReturned /\ calls = 0 /\ adminOps = 1
  /\ DemoTenant \in tenants
  /\ DemoTenant.schema_name \notin DOMAIN schemas
  /\ DemoTenant.keycloak_realm \notin DOMAIN realms

\* --------------------------------------------------------- authentication

\* Requests in the middleware in one behaviour.
MaxRequests == 2

Reqs == 1..MaxRequests

\* Realm names of the seeded test tenants, of a tenant whose provisioning has
\* not finished, and of Keycloak's built-in realm, which has no registry row.
AlphaRealm == <<"a", "l", "p", "h", "a">>
BetaRealm == <<"b", "e", "t", "a">>
SuspendedRealm == <<"s", "u", "s", "p", "e", "n", "d", "e", "d">>
PendingRealm == <<"n", "e", "w">>
MasterRealm == <<"m", "a", "s", "t", "e", "r">>
NoRealm == <<>>

SeedRow(id, name, realm, status) ==
  [id |-> id, name |-> name, slug |-> realm, keycloak_realm |-> realm,
   schema_name |-> <<"tenant_">> \o realm, status |-> status]

\* The registry the requests run against: the three seeded tenants and a row
\* createTenant has inserted and not yet flipped to active.
SeedTenants ==
  {SeedRow(1, "Alpha Corporation", AlphaRealm, "active"),
   SeedRow(2, "Beta Industries", BetaRealm, "active"),
   SeedRow(3, "Suspended Corp", SuspendedRealm, "suspended"),
   SeedRow(4, "New Company", PendingRealm, "pending")}

SeedRealms ==
  [r \in {AlphaRealm, BetaRealm, SuspendedRealm, PendingRealm, MasterRealm} |-> DemoRealm]

SeedSchemas == [s \in {t.schema_name : t \in SeedTenants} |-> {}]

\* A bearer token as the middleware sees it: the realm at the end of the iss
\* path (NoRealm when iss has no such path), whether iss starts with the
\* configured public URL, the realm whose key signed it, whether exp has
\* passed, whether aud holds the configured audience, and the payload claims.
TokenOf(realm) ==
  [realm |-> realm, publicIss |-> TRUE, signer |-> realm, expired |-> FALSE,
   aud |-> TRUE, sub |-> <<"u", realm>>, realm_access |-> {"member"},
   resource_access |-> {<<"taskhub-app", "admin">>}]

TokenInputs ==
  {TokenOf(r) : r \in DOMAIN SeedRealms}
    \cup {[TokenOf(AlphaRealm) EXCEPT !.expired = TRUE],
          [TokenOf(SuspendedRealm) EXCEPT !.expired = TRUE],
          [TokenOf(AlphaRealm) EXCEPT !.signer = BetaRealm],
          [TokenOf(AlphaRealm) EXCEPT !.aud = FALSE],
          [TokenOf(BetaRealm) EXCEPT !.publicIss = FALSE],
          [TokenOf(AlphaRealm) EXCEPT !.realm_access = {"admin"}],
          [TokenOf(BetaRealm) EXCEPT !.resource_access = {}],
          TokenOf(NoRealm)}

NoToken == [realm |-> NoRealm]

\* Authorization headers: absent, another scheme, or 'Bearer ' + token.
HeaderInputs ==
  {[scheme |-> "none", token |-> NoToken], [scheme |-> "Basic", token |-> NoToken]}
    \cup {[scheme |-> "Bearer", token |-> t] : t \in TokenInputs}

NoUser == [id |-> <<>>]

NoContext == [id |-> NoTenant]

NoResponse == [status |-> 0, message |-> "none"]

\* A fetcher createRemoteJWKSet returns: the realm whose certs URL it is bound
\* to, and the request whose getJwks call created it (its identity).
NoFetcher == [url |-> NoRealm, by |-> 0]

NewRequest ==
  [pc |-> "new", header |-> [scheme |-> "none", token |-> NoToken],
   realm |-> NoRealm, verified |-> FALSE, error |-> "none",
   user |-> NoUser, tenant |-> NoContext, response |-> NoResponse,
   method |-> "none", allowedRoles |-> <<>>, jwks |-> NoFetcher]

Respond(req, status, message) ==
  [req EXCEPT !.pc = "responded", !.response = [status |-> status, message |-> message]]

\* extractRealmFromToken: the last path segment of iss after /realms/, or null.
extractRealmFromToken(token) == token.realm

\* extractRoles: the realm roles, then `${client}:${role}` for each client role.
extractRoles(payload) ==
  {<<r>> : r \in payload.realm_access}
    \cup {<<cr[1], ":", cr[2]>> : cr \in payload.resource_access}

getJwksUncached(realm, r) ==
  LET jwks == [url |-> realm, by |-> r]
  IN  [jwks |-> jwks, cache |-> Put(jwksCache, realm, jwks)]

\* getJwks: the cached fetcher when jwksCache.has(realm); otherwise a new
\* fetcher for the realm's certs URL, stored with jwksCache.set. The function
\* has no await: has, createRemoteJWKSet and set run in one turn.
getJwks(realm, r) ==
  IF realm \in DOMAIN jwksCache
    THEN [jwks |-> jwksCache[realm], cache |-> jwksCache]
    ELSE LET jwks == [url |-> realm, by |-> r]
         IN  [jwks |-> jwks, cache |-> Put(jwksCache, realm, jwks)]

\* authenticate up to its first await: the header check, the realm taken from
\* the unverified token, and getJwks, which caches a fetcher for that realm.
AuthStart(r, header) ==
  /\ reqs[r].pc = "new"
  /\ LET req == [reqs[r] EXCEPT !.header = header]
         realm == extractRealmFromToken(header.token)
     IN  IF header.scheme # "Bearer"
           THEN /\ reqs' = [reqs EXCEPT ![r] =
                              Respond(req, 401, "No valid authorization header provided")]
                /\ UNCHANGED jwksCache
         ELSE IF realm = NoRealm
           THEN /\ reqs' = [reqs EXCEPT ![r] =
                              [req EXCEPT !.pc = "catch", !.error = "invalid"]]
                /\ UNCHANGED jwksCache
         ELSE /\ reqs' = [reqs EXCEPT ![r] =
                              [req EXCEPT !.pc = "verify", !.realm = realm,
                                          !.jwks = getJwks(realm, r).jwks]]
              /\ jwksCache' = getJwks(realm, r).cache
  /\ UNCHANGED <<poolVars, handlerVars, sagaVars, callers, tenants, realms, audit_logs, adminOps>>


\* jose.jwtVerify(token, jwks, {issuer, audience}): the key set is fetched from
\* the realm's certs endpoint, the signature is checked against it, then the
\* iss and aud claims, then exp.
jwtVerify(token, realm, fetched) ==
  IF ~fetched \/ realm \notin DOMAIN realms THEN "invalid"
  ELSE IF token.signer # realm THEN "invalid"
  ELSE IF ~token.publicIss \/ ~token.aud THEN "invalid"
  ELSE IF token.expired THEN "expired"
  ELSE "ok"

\* authenticate: await jose.jwtVerify; a rejection passes to the catch block.
Verify(r) ==
  /\ reqs[r].pc = "verify"
  /\ \E fetched \in BOOLEAN :
       LET res == jwtVerify(reqs[r].header.token, reqs[r].realm, fetched)
       IN  reqs' = [reqs EXCEPT ![r] =
                      IF res = "ok" THEN [@ EXCEPT !.pc = "lookup", !.verified = TRUE]
                      ELSE [@ EXCEPT !.pc = "catch", !.error = res]]
  /\ UNCHANGED <<poolVars, handlerVars, sagaVars, callers, tenants, realms, audit_logs, adminOps, jwksCache>>

getTenantByRealmAny(realm) == tenants

getTenantByRealmOrDefault(realm) ==
  IF \E t \in tenants : t.keycloak_realm = realm
    THEN {t \in tenants : t.keycloak_realm = realm}
    ELSE tenants

\* SELECT * FROM platform.tenants WHERE keycloak_realm = $1
getTenantByRealm(realm) == {t \in tenants : t.keycloak_realm = realm}

NotActiveOnlySuspended(tenant) == tenant.status = "suspended"

\* tenant.status !== 'active'
NotActive(tenant) == tenant.status # "active"

\* authenticate from the tenant lookup to the response or to next(): a query
\* that throws passes to the catch block; no row and a row that is not active
\* are answered 403; otherwise req.user and req.tenant are attached.
Lookup(r) ==
  /\ reqs[r].pc = "lookup"
  /\ LET req == reqs[r]
         payload == req.header.token
         user == [id |-> payload.sub, roles |-> extractRoles(payload),
                  realm |-> req.realm]
         rows == getTenantByRealm(req.realm)
     IN  \/ reqs' = [reqs EXCEPT ![r] = [req EXCEPT !.pc = "catch", !.error = "invalid"]]
         \/ /\ rows = {}
            /\ reqs' = [reqs EXCEPT ![r] = Respond(req, 403, "Invalid tenant")]
         \/ \E tenant \in rows :
              reqs' = [reqs EXCEPT ![r] =
                IF NotActive(tenant)
                  THEN Respond(req, 403, "Tenant access is suspended")
                  ELSE [req EXCEPT !.pc = "handler", !.user = user,
                          !.tenant = [id |-> tenant.id, slug |-> tenant.slug,
                                      schema |-> tenant.schema_name,
                                      realm |-> tenant.keycloak_realm]]]
  /\ UNCHANGED <<poolVars, handlerVars, sagaVars, callers, tenants, realms, audit_logs, adminOps, jwksCache>>

LoginFailureOfTenant(req) ==
  [tenant_id |-> IF \E t \in tenants : t.keycloak_realm = req.header.token.realm
                   THEN (CHOOSE t \in tenants :
                           t.keycloak_realm = req.header.token.realm).id
                   ELSE NoTenant,
   action |-> "AUTH_LOGIN_FAILURE"]

\* The entry logAuth('LOGIN_FAILURE', {ipAddress, userAgent, reason}) builds:
\* action `AUTH_${event}`, tenantId and userId absent from the details.
LoginFailure(req) == [tenant_id |-> NoTenant, action |-> "AUTH_LOGIN_FAILURE"]

\* The catch block: logAuth('LOGIN_FAILURE'), then 401 with one of two messages.
Catch(r) ==
  /\ reqs[r].pc = "catch"
  /\ \E dbOk \in BOOLEAN :
       audit_logs' = AuditLogged(LoginFailure(reqs[r]), dbOk)
  /\ reqs' = [reqs EXCEPT ![r] =
                Respond(@, 401, IF @.error = "expired" THEN "Token has expired"
                                                       ELSE "Invalid token")]
  /\ UNCHANGED <<poolVars, handlerVars, sagaVars, callers, tenants, realms, adminOps, jwksCache>>

\* POST /:projectId/tasks is registered with requireRole('admin', 'manager').
CreateTaskRoles == <<"admin", "manager">>

\* The routes behind requireRole: their methods and their allowedRoles arrays
\* (requireRole('admin') and requireRole('admin', 'manager') in the routers;
\* the factory takes any list).
MethodInputs == {"GET", "PATCH", "POST"}
AllowedRolesInputs == {<<"admin">>, CreateTaskRoles, <<"manager", "member">>}

\* The gated routes the requests address, as <<req.method, allowedRoles>>:
\* the POST route is task creation, behind its own gate.
GatedRoutes ==
  {route \in MethodInputs \X AllowedRolesInputs :
     route[1] = "POST" <=> route[2] = CreateTaskRoles}

requireRoleClientScoped(allowedRoles, user) ==
  IF user = NoUser THEN "unauthenticated"
  ELSE IF \E i \in DOMAIN allowedRoles :
            \E role \in user.roles : role[Len(role)] = allowedRoles[i]
    THEN "next"
    ELSE "denied"

\* requireRole(...allowedRoles): 401 without req.user; otherwise
\* allowedRoles.some((role) => req.user.roles.includes(role)).
requireRole(allowedRoles, user) ==
  IF user = NoUser THEN "unauthenticated"
  ELSE IF \E i \in DOMAIN allowedRoles : <<allowedRoles[i]>> \in user.roles
    THEN "next"
    ELSE "denied"

AccessDeniedWithoutTenant(req, allowedRoles, method) ==
  [tenant_id |-> NoTenant, user_id |-> req.user.id, action |-> "ACCESS_DENIED",
   attemptedAction |-> method, reason |-> allowedRoles]

\* The entry logAccessDenied builds from requireRole's details: tenantId
\* req.tenant?.id, userId req.user.id, action 'ACCESS_DENIED', attemptedAction
\* req.method, reason `Required roles: ${allowedRoles.join(', ')}`.
AccessDenied(req, allowedRoles, method) ==
  [tenant_id |-> req.tenant.id, user_id |-> req.user.id, action |-> "ACCESS_DENIED",
   attemptedAction |-> method, reason |-> allowedRoles]

\* The middleware requireRole(allowedRoles) returns, run on a request that
\* authenticate passed on: next(), or the audit entry and 403, or 401.
RequireRole(r, allowedRoles, method) ==
  /\ reqs[r].pc = "handler"
  /\ LET req == [reqs[r] EXCEPT !.method = method, !.allowedRoles = allowedRoles]
         decision == requireRole(allowedRoles, req.user)
     IN  IF decision = "next"
           THEN /\ reqs' = [reqs EXCEPT ![r] = [req EXCEPT !.pc = "route"]]
                /\ UNCHANGED audit_logs
         ELSE IF decision = "denied"
           THEN /\ \E dbOk \in BOOLEAN :
                     audit_logs' = AuditLogged(AccessDenied(req, allowedRoles, method), dbOk)
                /\ reqs' = [reqs EXCEPT ![r] =
                     [req EXCEPT !.pc = "denied",
                        !.response = [status |-> 403,
                                      message |-> "Insufficient permissions"]]]
         ELSE /\ reqs' = [reqs EXCEPT ![r] =
                     [req EXCEPT !.pc = "denied",
                        !.response = [status |-> 401,
                                      message |-> "Authentication required"]]]
              /\ UNCHANGED audit_logs
  /\ UNCHANGED <<poolVars, handlerVars, sagaVars, callers, tenants, realms, adminOps, jwksCache>>

RegisteredIds == {t.id : t \in tenants}

InitAuth ==
  /\ tenants = SeedTenants
  /\ schemas = SeedSchemas
  /\ realms = SeedRealms
  /\ audit_logs = <<>>
  /\ adminOps = 0
  /\ calls = 0
  /\ saga = IdleSaga
  /\ history = <<>>
  /\ del = IdleDelete
  /\ callers = NoCallers
  /\ reqs = [r \in Reqs |-> NewRequest]
  /\ jwksCache = <<>>
  /\ PoolAtRest
  /\ HandlersAtRest

NextAuth ==
  \/ \E r \in Reqs : \E header \in HeaderInputs : AuthStart(r, header)
  \/ \E r \in Reqs : Verify(r)
  \/ \E r \in Reqs : Lookup(r)
  \/ \E r \in Reqs : Catch(r)
  \/ \E r \in Reqs : \E route \in GatedRoutes : RequireRole(r, route[2], route[1])
  \/ \E authorization \in Authorizations : \E id \in RegisteredIds :
       PostSuspend(authorization, id)
  \/ \E authorization \in Authorizations : \E id \in RegisteredIds :
       PostReactivate(authorization, id)

SpecAuth == InitAuth /\ [][NextAuth]_vars

\* ------------------------------------------------------ authentication claims

\* authenticate has called next(): the request is before, past, or stopped at
\* the role gate.
LetThrough(r) == reqs[r].pc \in {"handler", "route", "denied"}

TenantInactive == [status |-> 403, message |-> "Tenant access is suspended"]

\* C1: every request authenticate lets through carries the id and schema of
\* the registry row whose realm is the realm that signed its verified token,
\* and the id and schema of no other row, whatever other requests are in flight.
C1_ContextIsOfVerifiedRealm ==
  \A r \in Reqs : LetThrough(r) =>
    LET token == reqs[r].header.token
    IN  /\ token.publicIss /\ token.aud /\ ~token.expired
        /\ token.signer = token.realm
        /\ reqs[r].user.realm = token.signer
        /\ \E t \in tenants :
             /\ t.keycloak_realm = token.signer
             /\ reqs[r].tenant.id = t.id
             /\ reqs[r].tenant.schema = t.schema_name
        /\ \A t \in tenants :
             t.keycloak_realm # token.signer =>
               reqs[r].tenant.id # t.id /\ reqs[r].tenant.schema # t.schema_name

C1_Witness ==
  /\ \A r \in Reqs : LetThrough(r)
  /\ \E r \in Reqs : reqs[r].tenant.schema = <<"tenant_">> \o AlphaRealm
  /\ \E r \in Reqs : reqs[r].tenant.schema = <<"tenant_">> \o BetaRealm

\* C3 (as amended): a request is let through only in a step that finds the
\* row of its realm active; a verified token whose lookup returns a row that
\* is not active (pending or suspended) is answered 403 'Tenant access is
\* suspended'; and a request that was not let through has no identity context.
C3_InactiveTenantNeverLetThrough ==
  /\ [][\A r \in Reqs :
          /\ (~LetThrough(r) /\ LetThrough(r)') =>
               \E t \in tenants :
                 t.keycloak_realm = reqs[r].header.token.realm /\ t.status = "active"
          /\ ( /\ reqs[r].pc = "lookup"
               /\ reqs'[r].pc \notin {"lookup", "catch"}
               /\ \E t \in tenants :
                    t.keycloak_realm = reqs[r].realm /\ t.status # "active" ) =>
               /\ reqs'[r].pc = "responded"
               /\ reqs'[r].response = TenantInactive
       ]_vars
  /\ [](\A r \in Reqs :
          ~LetThrough(r) => reqs[r].tenant = NoContext /\ reqs[r].user = NoUser)

C3_Witness ==
  \E r \in Reqs :
    /\ reqs[r].response = TenantInactive
    /\ reqs[r].realm = PendingRealm
    /\ \E t \in tenants : t.keycloak_realm = PendingRealm /\ t.status = "pending"

\* C3 (as stated): every bearer token whose realm maps to a tenant that is
\* not active is answered TenantInactive, whether or not the token is valid.
C3_AsStated ==
  \A r \in Reqs :
    ( /\ reqs[r].pc = "responded"
      /\ reqs[r].header.scheme = "Bearer"
      /\ adminOps = 0
      /\ \E t \in tenants :
           t.keycloak_realm = reqs[r].header.token.realm /\ t.status # "active" )
    => reqs[r].response = TenantInactive


TenantUnknown == [status |-> 403, message |-> "Invalid tenant"]

Unregistered(realm) == \A t \in tenants : t.keycloak_realm # realm

C16_ForbiddenIsAudited ==
  [][\A r \in Reqs :
       ( /\ reqs[r].verified
         /\ reqs[r].pc # "responded" /\ reqs'[r].pc = "responded"
         /\ reqs'[r].response.status = 403 ) =>
         Appended \cap {"AUTH_FAILURE", "AUTH_LOGIN_FAILURE"} # {}
    ]_vars

\* A verified request of the suspended tenant answered 403, nothing audited.
C16_Witness ==
  /\ audit_logs = <<>>
  /\ \E r \in Reqs :
       /\ reqs[r].verified
       /\ reqs[r].realm = SuspendedRealm
       /\ reqs[r].response = TenantInactive


\* A bearer token jwtVerify cannot accept, whatever the key set fetched.
FailsVerification(token) ==
  \/ token.realm = NoRealm
  \/ token.signer # token.realm
  \/ ~token.publicIss \/ ~token.aud
  \/ token.expired

Unauthenticated == {[status |-> 401, message |-> "Token has expired"],
                    [status |-> 401, message |-> "Invalid token"]}

C25_FetcherCachedOnceAndReused ==
  /\ [](\A r \in Reqs : reqs[r].realm # NoRealm =>
          /\ reqs[r].realm \in DOMAIN jwksCache
          /\ reqs[r].jwks = jwksCache[reqs[r].realm]
          /\ reqs[r].jwks.url = reqs[r].realm
          /\ reqs[r].jwks.by \in Reqs)
  /\ [](\A realm \in DOMAIN jwksCache : \E r \in Reqs : reqs[r].realm = realm)
  /\ [][\A realm \in DOMAIN jwksCache :
          /\ realm \in DOMAIN jwksCache'
          /\ jwksCache'[realm] = jwksCache[realm]
       ]_vars

\* Both requests resolved keys for alpha and hold the one fetcher the first
\* of them created; alpha has been suspended since and the entry is still there.
C25_Witness ==
  /\ \A r \in Reqs : reqs[r].realm = AlphaRealm /\ reqs[r].jwks = [url |-> AlphaRealm, by |-> 1]
  /\ DOMAIN jwksCache = {AlphaRealm}
  /\ \E t \in tenants : t.keycloak_realm = AlphaRealm /\ t.status = "suspended"

\* The request r passes through the role gate in this step.
AtGate(r) == reqs[r].pc = "handler" /\ reqs'[r] # reqs[r]

HoldsOneOf(roles, allowedRoles) ==
  \E i \in DOMAIN allowedRoles : <<allowedRoles[i]>> \in roles

C19_GateIsAnyOf ==
  [][\A r \in Reqs :
       (AtGate(r) /\ reqs[r].user # NoUser) =>
         /\ reqs'[r].pc \in {"route", "denied"}
         /\ reqs'[r].pc = "route" <=>
              HoldsOneOf(reqs[r].user.roles, reqs'[r].allowedRoles)
         /\ reqs'[r].pc = "route" =>
              \E i \in DOMAIN reqs'[r].allowedRoles :
                reqs'[r].allowedRoles[i] \in reqs[r].header.token.realm_access
         /\ reqs'[r].user = reqs[r].user /\ reqs'[r].tenant = reqs[r].tenant
    ]_vars

\* The same gate requireRole('manager', 'member') has stopped an admin and
\* passed a member holding the second role only; and requireRole('admin')
\* would stop that member, whose token has the client role taskhub-app:admin.
C19_Witness ==
  /\ \E r \in Reqs :
       /\ reqs[r].pc = "route"
       /\ reqs[r].allowedRoles = <<"manager", "member">>
       /\ reqs[r].user.roles = {<<"member">>, <<"taskhub-app", ":", "admin">>}
       /\ requireRole(<<"admin">>, reqs[r].user) = "denied"
  /\ \E r \in Reqs :
       /\ reqs[r].pc = "denied"
       /\ reqs[r].allowedRoles = <<"manager", "member">>
       /\ reqs[r].user.roles = {<<"admin">>, <<"taskhub-app", ":", "admin">>}

\* The request r carries a verified token whose only role is member and has
\* been through the gate of POST /:projectId/tasks.
MemberCreatesTask(r) ==
  /\ reqs[r].pc \in {"route", "denied"}
  /\ reqs[r].user # NoUser
  /\ reqs[r].user.roles = {<<"member">>}
  /\ reqs[r].method = "POST"
  /\ reqs[r].allowedRoles = CreateTaskRoles

\* C26: an authenticated caller whose only role is member can create a task
\* in an existing project of their own tenant: the request passes the gate of
\* the task-creation route and reaches the handler that creates the task.
C26_MemberCanCreateTask ==
  \A r \in Reqs : MemberCreatesTask(r) => reqs[r].pc = "route"

\* A member of tenant beta stopped at the task-creation gate with 403.
C26_Witness ==
  \E r \in Reqs :
    /\ MemberCreatesTask(r)
    /\ reqs[r].tenant.id = 2
    /\ reqs[r].pc = "denied"
    /\ reqs[r].response = [status |-> 403, message |-> "Insufficient permissions"]

\* -------------------------------------------------------- connection pool

\* Connections the pool may hold open at once (the pool's max).
MaxConns == 2
\* Concurrent callers of the database helpers.
MaxWorkers == 2
\* Helper calls made in one behaviour.
MaxPoolOps == 3
\* Statements a transaction callback issues.
MaxStmts == 2

ConnIds == 1..MaxConns

Workers == 1..MaxWorkers

\* The search_path of a fresh session.
DefaultPath == <<"$user", "public">>

AlphaSchema == <<"tenant_">> \o AlphaRealm

BetaSchema == <<"tenant_">> \o BetaRealm

SchemaInputs == {AlphaSchema, BetaSchema}

\* A connection slot of the pool: closed (no session), idle in the pool, or
\* busy (checked out by owner).  lastCall is the call that last ran a
\* statement on the session; pending holds the open transaction's writes.
ClosedConn ==
  [state |-> "closed", search_path |-> DefaultPath, owner |-> 0, lastCall |-> 0,
   inTxn |-> FALSE, pending |-> {}]

IdleWork ==
  [pc |-> "idle", op |-> "none", schema |-> DefaultPath, call |-> 0, client |-> 0,
   inherited |-> DefaultPath, todo |-> 0, error |-> "none", thrown |-> "none",
   releases |-> 0]

otherVars == <<tenants, realms, audit_logs, calls, saga, history, adminOps, del, callers,
              authVars, handlerVars>>

\* Slots pool.connect() can hand out: an idle session if there is one,
\* otherwise a new session while the pool is below max.
Obtainable ==
  IF \E c \in ConnIds : conns[c].state = "idle"
    THEN {c \in ConnIds : conns[c].state = "idle"}
    ELSE {c \in ConnIds : conns[c].state = "closed"}

\* The session as the borrower w receives it.
CheckedOut(c, w) ==
  IF conns[c].state = "idle" THEN [conns[c] EXCEPT !.state = "busy", !.owner = w]
  ELSE [ClosedConn EXCEPT !.state = "busy", !.owner = w]

\* client.release() left out: the session stays checked out.
ReleaseSkipped(conn) == conn

\* client.release(): the session goes back to the pool as it is.
Released(conn) == [conn EXCEPT !.state = "idle", !.owner = 0]

SetSearchPathSkipped(conn, schema, call) == [conn EXCEPT !.lastCall = call]

\* client.query(`SET search_path TO ${tenantSchema}, public`)
SetSearchPath(conn, schema, call) ==
  [conn EXCEPT !.search_path = schema, !.lastCall = call]

Idle(w) == work[w].pc \in {"idle", "done"}

Finished(wk, thrown) ==
  [wk EXCEPT !.pc = "done", !.thrown = thrown, !.releases = @ + 1, !.client = 0]

\* The record of one statement: the call that issued it and the partition it
\* was issued for, and the session as the statement met it.
Logged(wk, conn, seen) ==
  [call |-> wk.call, schema |-> wk.schema, path |-> conn.search_path,
   prev |-> conn.lastCall, inherited |-> wk.inherited, seen |-> seen]

\* query: pool.query checks a session out, runs the schema-qualified
\* statement and checks the session in again.
Query(w) ==
  /\ Idle(w)
  /\ poolOps < MaxPoolOps
  /\ poolOps' = poolOps + 1
  /\ \E c \in Obtainable : \E ok \in BOOLEAN :
       /\ conns' = [conns EXCEPT ![c] =
                      Released([CheckedOut(c, w) EXCEPT !.lastCall = poolOps + 1])]
       /\ work' = [work EXCEPT ![w] =
                     [IdleWork EXCEPT !.pc = "done", !.op = "query", !.call = poolOps + 1,
                                      !.thrown = IF ok THEN "none" ELSE "statement"]]
  /\ UNCHANGED <<schemas, stmtLog, otherVars>>

\* pool.connect() of either helper: a session; or, with no idle session, the
\* connection timeout (pool at max) or the failure to open a new session.
Connect(w, op, schema, todo) ==
  /\ Idle(w)
  /\ poolOps < MaxPoolOps
  /\ poolOps' = poolOps + 1
  /\ LET wk == [IdleWork EXCEPT !.op = op, !.schema = schema, !.call = poolOps + 1,
                                !.todo = todo]
     IN  \/ \E c \in Obtainable :
              /\ conns' = [conns EXCEPT ![c] = CheckedOut(c, w)]
              /\ work' = [work EXCEPT ![w] =
                            [wk EXCEPT !.pc = "set", !.client = c,
                                       !.inherited = CheckedOut(c, w).search_path]]
         \/ /\ \A c \in ConnIds : conns[c].state # "idle"
            /\ work' = [work EXCEPT ![w] =
                          [wk EXCEPT !.pc = "done",
                                     !.thrown = IF Obtainable = {} THEN "timeout"
                                                                   ELSE "connect"]]
            /\ UNCHANGED conns
  /\ UNCHANGED <<schemas, stmtLog, otherVars>>

\* queryWithTenant: const client = await pool.connect()
QwtConnect(w, schema) == Connect(w, "queryWithTenant", schema, 1)

\* queryWithTenant: the SET; its failure releases the client in finally.
QwtSetPath(w) ==
  /\ work[w].pc = "set" /\ work[w].op = "queryWithTenant"
  /\ LET c == work[w].client
     IN  \/ /\ conns' = [conns EXCEPT ![c] =
                           SetSearchPath(@, work[w].schema, work[w].call)]
            /\ work' = [work EXCEPT ![w].pc = "statement"]
         \/ /\ conns' = [conns EXCEPT ![c] = Released(@)]
            /\ work' = [work EXCEPT ![w] = Finished(@, "set")]
  /\ UNCHANGED <<schemas, stmtLog, poolOps, otherVars>>


\* The row a statement of the call writes, tagged with the partition the
\* call was issued for.
RowOf(wk) == [schema |-> wk.schema, call |-> wk.call, n |-> wk.todo]

\* Whether the unqualified table names of a statement resolve on the session.
Resolves(conn) == conn.search_path \in DOMAIN schemas

\* queryWithTenant: the caller's statement, then client.release() in finally.
QwtStatement(w) ==
  /\ work[w].pc = "statement"
  /\ \E kind \in {"read", "write"} : \E ok \in BOOLEAN :
       LET c == work[w].client
           conn == conns[c]
           ran == ok /\ Resolves(conn)
       IN  /\ stmtLog' = stmtLog \cup
                 {Logged(work[w], conn,
                         IF ran /\ kind = "read"
                           THEN {row.schema : row \in schemas[conn.search_path]}
                           ELSE {})}
           /\ schemas' = IF ran /\ kind = "write"
                           THEN [schemas EXCEPT ![conn.search_path] = @ \cup {RowOf(work[w])}]
                           ELSE schemas
           /\ conns' = [conns EXCEPT ![c] = Released([conn EXCEPT !.lastCall = work[w].call])]
           /\ work' = [work EXCEPT ![w] = Finished(@, IF ran THEN "none" ELSE "statement")]
  /\ UNCHANGED <<poolOps, otherVars>>

\* transactionWithTenant: const client = await pool.connect()
TxConnect(w, schema, todo) == Connect(w, "transactionWithTenant", schema, todo)

\* transactionWithTenant: the SET; its failure passes to the catch block.
TxSetPath(w) ==
  /\ work[w].pc = "set" /\ work[w].op = "transactionWithTenant"
  /\ LET c == work[w].client
     IN  \/ /\ conns' = [conns EXCEPT ![c] =
                           SetSearchPath(@, work[w].schema, work[w].call)]
            /\ work' = [work EXCEPT ![w].pc = "begin"]
         \/ /\ work' = [work EXCEPT ![w].pc = "rollback", ![w].error = "set"]
            /\ UNCHANGED conns
  /\ UNCHANGED <<schemas, stmtLog, poolOps, otherVars>>

\* transactionWithTenant: client.query('BEGIN')
TxBegin(w) ==
  /\ work[w].pc = "begin"
  /\ LET c == work[w].client
     IN  \/ /\ conns' = [conns EXCEPT ![c].inTxn = TRUE, ![c].lastCall = work[w].call]
            /\ work' = [work EXCEPT ![w].pc = "callback"]
         \/ /\ work' = [work EXCEPT ![w].pc = "rollback", ![w].error = "begin"]
            /\ UNCHANGED conns
  /\ UNCHANGED <<schemas, stmtLog, poolOps, otherVars>>

\* transactionWithTenant: one statement of callback(client); a statement that
\* throws passes to the catch block.
TxCallback(w) ==
  /\ work[w].pc = "callback"
  /\ \E ok \in BOOLEAN :
       LET c == work[w].client
           conn == conns[c]
           ran == ok /\ Resolves(conn)
       IN  /\ stmtLog' = stmtLog \cup {Logged(work[w], conn, {})}
           /\ conns' = [conns EXCEPT ![c] =
                          [conn EXCEPT !.lastCall = work[w].call,
                                       !.pending = IF ran THEN @ \cup {RowOf(work[w])} ELSE @]]
           /\ work' = [work EXCEPT ![w] =
                         IF ~ran THEN [@ EXCEPT !.pc = "rollback", !.error = "callback"]
                         ELSE IF @.todo = 1 THEN [@ EXCEPT !.pc = "commit", !.todo = 0]
                         ELSE [@ EXCEPT !.todo = @ - 1]]
  /\ UNCHANGED <<schemas, poolOps, otherVars>>

\* transactionWithTenant: client.query('COMMIT'), return, release in finally;
\* a COMMIT that throws passes to the catch block with the transaction gone.
TxCommit(w) ==
  /\ work[w].pc = "commit"
  /\ LET c == work[w].client
         conn == conns[c]
         ended == [conn EXCEPT !.inTxn = FALSE, !.pending = {}, !.lastCall = work[w].call]
     IN  \/ /\ schemas' = [schemas EXCEPT ![conn.search_path] = @ \cup conn.pending]
            /\ conns' = [conns EXCEPT ![c] = Released(ended)]
            /\ work' = [work EXCEPT ![w] = Finished(@, "none")]
         \/ /\ conns' = [conns EXCEPT ![c] = ended]
            /\ work' = [work EXCEPT ![w].pc = "rollback", ![w].error = "commit"]
            /\ UNCHANGED schemas
  /\ UNCHANGED <<stmtLog, poolOps, otherVars>>

\* transactionWithTenant: the catch block's ROLLBACK, throw error, release
\* in finally; a ROLLBACK that throws (the session is lost) replaces the error.
TxRollback(w) ==
  /\ work[w].pc = "rollback"
  /\ LET c == work[w].client
         conn == conns[c]
     IN  \/ /\ conns' = [conns EXCEPT ![c] =
                  Released([conn EXCEPT !.inTxn = FALSE, !.pending = {},
                                        !.lastCall = work[w].call])]
            /\ work' = [work EXCEPT ![w] = Finished(@, @.error)]
         \/ /\ conns' = [conns EXCEPT ![c] = ClosedConn]
            /\ work' = [work EXCEPT ![w] = Finished(@, "rollback")]
  /\ UNCHANGED <<schemas, stmtLog, poolOps, otherVars>>

\* idleTimeoutMillis: the pool ends a session that has sat idle.
IdleTimeout(c) ==
  /\ conns[c].state = "idle"
  /\ conns' = [conns EXCEPT ![c] = ClosedConn]
  /\ UNCHANGED <<schemas, work, stmtLog, poolOps, otherVars>>

InitPool ==
  /\ tenants = SeedTenants
  /\ schemas = SeedSchemas
  /\ realms = SeedRealms
  /\ audit_logs = <<>>
  /\ adminOps = 0
  /\ SagaAtRest
  /\ AuthAtRest
  /\ conns = [c \in ConnIds |-> ClosedConn]
  /\ work = [w \in Workers |-> IdleWork]
  /\ stmtLog = {}
  /\ poolOps = 0
  /\ HandlersAtRest

NextPool ==
  \/ \E w \in Workers : Query(w)
  \/ \E w \in Workers : \E schema \in SchemaInputs : QwtConnect(w, schema)
  \/ \E w \in Workers : QwtSetPath(w)
  \/ \E w \in Workers : QwtStatement(w)
  \/ \E w \in Workers : \E schema \in SchemaInputs : \E todo \in 1..MaxStmts :
       TxConnect(w, schema, todo)
  \/ \E w \in Workers : TxSetPath(w)
  \/ \E w \in Workers : TxBegin(w)
  \/ \E w \in Workers : TxCallback(w)
  \/ \E w \in Workers : TxCommit(w)
  \/ \E w \in Workers : TxRollback(w)
  \/ \E c \in ConnIds : IdleTimeout(c)

SpecPool == InitPool /\ [][NextPool]_vars

\* --------------------------------------------------------------- pool claims

Borrowing(w) == work[w].client # 0

\* C2: every statement issued through queryWithTenant or transactionWithTenant
\* for partition P met a session whose search path was P and whose previous
\* statement was that same call's (its SET or a later statement of it); a
\* borrowed session has one borrower; so what a call reads, writes or holds
\* uncommitted are rows of its own partition only.
C2_StatementsRunInOwnPartition ==
  /\ \A e \in stmtLog :
       /\ e.path = e.schema
       /\ e.prev = e.call
       /\ e.seen \subseteq {e.schema}
  /\ \A s \in DOMAIN schemas : \A row \in schemas[s] : row.schema = s
  /\ \A c \in ConnIds : \A row \in conns[c].pending : row.schema = conns[c].search_path
  /\ \A w \in Workers : Borrowing(w) =>
       /\ conns[work[w].client].state = "busy"
       /\ conns[work[w].client].owner = w
       /\ \A v \in Workers \ {w} : work[v].client # work[w].client

C2_Witness ==
  /\ \E e \in stmtLog :
       e.schema = BetaSchema /\ e.inherited = AlphaSchema /\ e.seen = {BetaSchema}
  /\ schemas[AlphaSchema] # {}

\* C5: every connection sitting idle in the pool has the default search path,
\* no tenant's.
C5_IdleConnectionsCarryNoBinding ==
  \A c \in ConnIds : conns[c].state = "idle" => conns[c].search_path = DefaultPath


\* The rows of call wk that are visible in the partitions (committed).
Committed(wk) == {row \in UNION {schemas[s] : s \in DOMAIN schemas} : row.call = wk.call}

TxReturned(w) == work[w].pc = "done" /\ work[w].op = "transactionWithTenant"

\* C24: a transactionWithTenant call that returned normally has committed its
\* writes; one that raised an error has left none of its writes, has raised
\* the error of the statement that failed (or of pool.connect), and has
\* released its connection.
C24_TransactionAllOrNothing ==
  \A w \in Workers : TxReturned(w) =>
    IF work[w].thrown = "none"
      THEN /\ Committed(work[w]) # {}
           /\ work[w].error = "none"
      ELSE /\ Committed(work[w]) = {}
           /\ work[w].thrown \in {"timeout", "connect"} \/ work[w].thrown = work[w].error
           /\ work[w].client = 0

\* A statement of the callback failed, then the ROLLBACK failed: the caller
\* received the ROLLBACK's error.
C24_Witness ==
  \E w \in Workers :
    /\ TxReturned(w)
    /\ work[w].error = "callback"
    /\ work[w].thrown = "rollback"
    /\ Committed(work[w]) = {}


\* The workers that hold the connection c: it is their client.
HoldersOf(c) == {w \in Workers : work[w].client = c}

\* C30: a connection is busy exactly while one call of queryWithTenant or
\* transactionWithTenant holds it; the call that borrowed it releases it once,
\* in the step in which it returns, whichever statement failed (the SET, a
\* statement, the callback, COMMIT, ROLLBACK); no call returns holding a
\* connection and none releases twice.
C30_ReleasedExactlyOnce ==
  /\ [](\A c \in ConnIds :
          /\ conns[c].state = "busy" =>
               /\ HoldersOf(c) = {conns[c].owner}
               /\ ~Idle(conns[c].owner)
          /\ conns[c].state # "busy" => HoldersOf(c) = {})
  /\ [](\A w \in Workers :
          /\ work[w].releases \in {0, 1}
          /\ Idle(w) => ~Borrowing(w)
          /\ (work[w].pc = "done" /\ work[w].op # "query"
                 /\ work[w].thrown \notin {"timeout", "connect"}) => work[w].releases = 1
          /\ ~Idle(w) => Borrowing(w) /\ work[w].releases = 0)
  /\ [][\A w \in Workers :
          (Borrowing(w) /\ ~Borrowing(w)') =>
            /\ work'[w].releases = work[w].releases + 1
            /\ conns'[work[w].client].state \in {"idle", "closed"}
            /\ work'[w].pc = "done"
       ]_vars

\* Two calls have returned, each having released once: a transaction whose
\* COMMIT failed and a queryWithTenant whose SET failed; no connection is busy.
C30_Witness ==
  /\ \E w \in Workers :
       /\ TxReturned(w) /\ work[w].thrown = "commit" /\ work[w].releases = 1
  /\ \E w \in Workers :
       /\ work[w].pc = "done" /\ work[w].op = "queryWithTenant"
       /\ work[w].thrown = "set" /\ work[w].releases = 1
  /\ \A c \in ConnIds : conns[c].state # "busy"

\* ----------------------------------------------------- projects and tasks

\* Project and task requests in one behaviour.
MaxDataOps == 2

\* The largest row id of the seeded partitions; one id above it is in none.
MaxRowId == 2

RowIds == 1..MaxRowId

AddressedIds == 1..(MaxRowId + 1)

ProjectRow(id, name) == [table |-> "projects", id |-> id, name |-> name]

TaskRow(id, project_id, title) ==
  [table |-> "tasks", id |-> id, project_id |-> project_id, title |-> title]

NoData == [table |-> "none"]

\* tasks.project_id REFERENCES projects(id) within the schema; id is the
\* PRIMARY KEY of each table.
Consistent(rows) ==
  /\ \A r, q \in rows : (r.table = q.table /\ r.id = q.id) => r = q
  /\ \A r \in rows :
       r.table = "tasks" => \E p \in rows : p.table = "projects" /\ p.id = r.project_id

Partitions ==
  {rows \in SUBSET ({ProjectRow(id, "old") : id \in RowIds}
                      \cup {TaskRow(id, p, "old") : id \in RowIds, p \in RowIds}) :
     Consistent(rows)}

\* The callers authenticate lets through: req.tenant of an active tenant and
\* req.user of its realm.
DataCallers ==
  {[tenantId |-> t.id, schema |-> t.schema_name, userId |-> <<"u", t.keycloak_realm>>] :
     t \in {s \in SeedTenants : s.status = "active"}}

TablesOfAll(db, tenantSchema) == UNION {db[n] : n \in DOMAIN db}

\* queryWithTenant(tenantSchema, ...): with search_path set to the tenant's
\* schema, the unqualified table names resolve to that schema's tables.
TablesOf(db, tenantSchema) == db[tenantSchema]

\* SELECT * FROM <table> WHERE id = $1
Selected(rows, table, id) == {r \in rows : r.table = table /\ r.id = id}

\* UPDATE <table> SET name / title = $1 WHERE id = $2 RETURNING *
Updated(rows, table, id, value) ==
  {IF r.table = table /\ r.id = id
     THEN (IF table = "projects" THEN [r EXCEPT !.name = value]
                                 ELSE [r EXCEPT !.title = value])
     ELSE r : r \in rows}

\* DELETE FROM <table> WHERE id = $1; fk_tasks_project is ON DELETE CASCADE.
Deleted(rows, table, id) ==
  {r \in rows :
     /\ ~(r.table = table /\ r.id = id)
     /\ ~(table = "projects" /\ r.table = "tasks" /\ r.project_id = id)}

\* INSERT INTO tasks: refused on a duplicate id or a project_id with no row.
Insertable(rows, task) ==
  /\ Selected(rows, "tasks", task.id) = {}
  /\ Selected(rows, "projects", task.project_id) # {}

\* errorHandler: an error without statusCode is answered 500 with the
\* generic message; an AppError with its own status and message.
Unexpected == [status |-> 500, message |-> "An unexpected error occurred", data |-> NoData]

NotFound(message) == [status |-> 404, message |-> message, data |-> NoData]

Success(status, message, data) == [status |-> status, message |-> message, data |-> data]

\* What a handler leaves behind: its response, the partitions, and the entry
\* it hands to logDataAccess (NoData when it logs nothing).
Outcome(response, db, operation, resourceType, resourceId) ==
  [response |-> response, db |-> db,
   logged |-> [action |-> operation, resource_type |-> resourceType,
               resource_id |-> resourceId]]

Quiet(response, db) == Outcome(response, db, "none", "none", 0)

ResourceOf(table) == IF table = "projects" THEN "project" ELSE "task"

NotFoundMessage(table) ==
  IF table = "projects" THEN "Project not found" ELSE "Task not found"

DeletedMessage(table) ==
  IF table = "projects" THEN "Project deleted successfully"
                         ELSE "Task deleted successfully"

\* GET /:id, GET /tasks/:id: getProject / getTask, 404 on null.
getRow(db, caller, table, id) ==
  LET rows == Selected(TablesOf(db, caller.schema), table, id)
  IN  IF rows = {} THEN Quiet(NotFound(NotFoundMessage(table)), db)
      ELSE Quiet(Success(200, "none", CHOOSE r \in rows : TRUE), db)

\* PATCH /:id, PATCH /tasks/:id: updateProject / updateTask, which throw a
\* plain Error when the UPDATE returns no row and log DATA_UPDATE otherwise.
updateRow(db, caller, table, id, value) ==
  LET after == Updated(TablesOf(db, caller.schema), table, id, value)
      rows == Selected(after, table, id)
  IN  IF rows = {} THEN Quiet(Unexpected, db)
      ELSE Outcome(Success(200, "none", CHOOSE r \in rows : TRUE),
                   [db EXCEPT ![caller.schema] = after],
                   "DATA_UPDATE", ResourceOf(table), id)

\* DELETE /:id, DELETE /tasks/:id: deleteProject / deleteTask, which do not
\* look at the row count, log DATA_DELETE and answer with the success message.
deleteRow(db, caller, table, id) ==
  Outcome(Success(200, DeletedMessage(table), NoData),
          [db EXCEPT ![caller.schema] = Deleted(TablesOf(db, caller.schema), table, id)],
          "DATA_DELETE", ResourceOf(table), id)

\* POST /:projectId/tasks: createTask inserts under a new uuid and logs
\* DATA_CREATE; a refused INSERT throws the database error.
createTask(db, caller, taskId, projectId) ==
  LET task == TaskRow(taskId, projectId, "new")
      rows == TablesOf(db, caller.schema)
  IN  IF Insertable(rows, task)
        THEN Outcome(Success(201, "none", task),
                     [db EXCEPT ![caller.schema] = rows \cup {task}],
                     "DATA_CREATE", "task", taskId)
        ELSE Quiet(Unexpected, db)

\* logDataAccess(operation, {tenantId, userId, resourceType, resourceId}).
DataAccess(caller, logged) ==
  [tenant_id |-> caller.tenantId, user_id |-> caller.userId, action |-> logged.action,
   resource_type |-> logged.resource_type, resource_id |-> logged.resource_id]

\* One request through its route handler: the statement in the caller's
\* schema, the best-effort audit entry, the response.
Handled(op, caller, table, id, out) ==
  /\ replies' = Append(replies, [op |-> op, caller |-> caller, table |-> table,
                                 id |-> id, response |-> out.response])
  /\ schemas' = out.db
  /\ IF out.logged.action = "none"
       THEN UNCHANGED audit_logs
       ELSE \E dbOk \in BOOLEAN :
              audit_logs' = AuditLogged(DataAccess(caller, out.logged), dbOk)
  /\ UNCHANGED <<authVars, poolVars, summary, logQuery, tenants, realms, calls, saga,
                 history, adminOps, del, callers>>

GetProject(caller, id) ==
  /\ Len(replies) < MaxDataOps
  /\ Handled("get", caller, "projects", id, getRow(schemas, caller, "projects", id))

UpdateProject(caller, id) ==
  /\ Len(replies) < MaxDataOps
  /\ Handled("update", caller, "projects", id,
             updateRow(schemas, caller, "projects", id, "new"))

DeleteProject(caller, id) ==
  /\ Len(replies) < MaxDataOps
  /\ Handled("delete", caller, "projects", id, deleteRow(schemas, caller, "projects", id))

GetTask(caller, id) ==
  /\ Len(replies) < MaxDataOps
  /\ Handled("get", caller, "tasks", id, getRow(schemas, caller, "tasks", id))

UpdateTask(caller, id) ==
  /\ Len(replies) < MaxDataOps
  /\ Handled("update", caller, "tasks", id, updateRow(schemas, caller, "tasks", id, "new"))

DeleteTask(caller, id) ==
  /\ Len(replies) < MaxDataOps
  /\ Handled("delete", caller, "tasks", id, deleteRow(schemas, caller, "tasks", id))

\* uuidv4(): an id no row has.
NewTaskId == MaxRowId + 2 + Len(replies)

CreateTask(caller, projectId) ==
  /\ Len(replies) < MaxDataOps
  /\ Handled("create", caller, "tasks", projectId,
             createTask(schemas, caller, NewTaskId, projectId))

\* Two active tenants with any consistent partition contents; the other
\* seeded tenants' partitions are empty.
InitData ==
  /\ tenants = SeedTenants
  /\ \E alpha, beta \in Partitions :
       schemas = [n \in DOMAIN SeedSchemas |->
                    IF n = <<"tenant_">> \o AlphaRealm THEN alpha
                    ELSE IF n = <<"tenant_">> \o BetaRealm THEN beta
                    ELSE {}]
  /\ realms = SeedRealms
  /\ audit_logs = <<>>
  /\ adminOps = 0
  /\ SagaAtRest
  /\ AuthAtRest
  /\ PoolAtRest
  /\ HandlersAtRest

NextData ==
  \/ \E caller \in DataCallers, id \in AddressedIds : GetProject(caller, id)
  \/ \E caller \in DataCallers, id \in AddressedIds : UpdateProject(caller, id)
  \/ \E caller \in DataCallers, id \in AddressedIds : DeleteProject(caller, id)
  \/ \E caller \in DataCallers, id \in AddressedIds : GetTask(caller, id)
  \/ \E caller \in DataCallers, id \in AddressedIds : UpdateTask(caller, id)
  \/ \E caller \in DataCallers, id \in AddressedIds : DeleteTask(caller, id)
  \/ \E caller \in DataCallers, id \in AddressedIds : CreateTask(caller, id)

SpecData == InitData /\ [][NextData]_vars

\* ------------------------------------------------ project and task claims

\* The handler the request op runs, on the partitions db.
Route(op, db, caller, table, id) ==
  CASE op = "get" -> getRow(db, caller, table, id)
    [] op = "update" -> updateRow(db, caller, table, id, "new")
    [] op = "delete" -> deleteRow(db, caller, table, id)
    [] op = "create" -> createTask(db, caller, NewTaskId, id)

\* The partitions with the row of the table under id in none of them.
Nowhere(db, table, id) == [n \in DOMAIN db |-> Deleted(db[n], table, id)]

\* The id names a row of the table in a partition other than the caller's
\* and no row in the caller's own.
OnlyElsewhere(caller, table, id) ==
  /\ Selected(schemas[caller.schema], table, id) = {}
  /\ \E n \in DOMAIN schemas \ {caller.schema} : Selected(schemas[n], table, id) # {}

TasksIn(db) == {r \in UNION {db[n] : n \in DOMAIN db} : r.table = "tasks"}

\* C23: a get, update or delete of a project or task by a caller of tenant A
\* under an id that exists only in another tenant's partition is answered as
\* the same request is answered when the id exists in no partition, and leaves
\* every other partition as it was; creating a task under a project id that is
\* not in the caller's partition adds no task row to any partition.
C23_ForeignIdsLookAbsent ==
  [][replies' # replies =>
       LET rp == replies'[Len(replies')]
       IN  /\ (rp.op # "create" /\ OnlyElsewhere(rp.caller, rp.table, rp.id)) =>
                /\ rp.response =
                     Route(rp.op, Nowhere(schemas, rp.table, rp.id), rp.caller,
                           rp.table, rp.id).response
                /\ schemas' = schemas
           /\ (rp.op = "create"
                 /\ Selected(schemas[rp.caller.schema], "projects", rp.id) = {}) =>
                /\ rp.response.status # 201
                /\ TasksIn(schemas') = TasksIn(schemas)
                /\ schemas' = schemas
    ]_vars

\* Tenant alpha has asked to delete project 2 and then to create a task under
\* it; project 2 and its task exist in tenant beta's partition only and are
\* still there, the delete was answered as a success and the creation refused.
C23_Witness ==
  /\ Len(replies) = 2
  /\ replies[1].op = "delete" /\ replies[1].table = "projects" /\ replies[1].id = 2
  /\ replies[1].response.status = 200
  /\ replies[2].op = "create" /\ replies[2].id = 2
  /\ replies[2].response = Unexpected
  /\ \A i \in 1..2 : replies[i].caller.schema = <<"tenant_">> \o AlphaRealm
  /\ schemas[<<"tenant_">> \o AlphaRealm] = {ProjectRow(1, "old")}
  /\ schemas[<<"tenant_">> \o BetaRealm] = {ProjectRow(2, "old"), TaskRow(1, 2, "old")}

\* --------------------------------------------------------- audit reports

\* Entries in platform.audit_logs in one behaviour.
MaxEntries == 3

\* The latest timestamp an entry or a date filter carries.
MaxTime == 2

Times == 0..MaxTime

NoUserId == <<>>

NoDate == 0 - 1

\* What the services hand to AuditService.log for a tenant: denials and data
\* changes of its users, and entries without a user.
EventInputs ==
  {[user_id |-> <<"ann">>, action |-> "ACCESS_DENIED"],
   [user_id |-> <<"ann">>, action |-> "DATA_UPDATE"],
   [user_id |-> NoUserId, action |-> "TENANT_SUSPENDED"]}

\* CURRENT_TIMESTAMP of the INSERT: not before the entries already there.
Now == IF audit_logs = <<>> THEN 0 ELSE audit_logs[Len(audit_logs)].created_at

\* AuditService.log: the INSERT, with the id and created_at column defaults.
LogEvent(tenantId, event, at) ==
  /\ Len(audit_logs) < MaxEntries
  /\ at >= Now
  /\ audit_logs' = AuditLogged([id |-> Len(audit_logs) + 1, tenant_id |-> tenantId,
                                user_id |-> event.user_id, action |-> event.action,
                                created_at |-> at], TRUE)
  /\ UNCHANGED <<authVars, poolVars, handlerVars, sagaVars, tenants, realms, adminOps,
                 callers>>

\* An admin of an active tenant, as authenticate and requireRole('admin')
\* leave it on the request.
ReportCallers == {t.id : t \in {s \in SeedTenants : s.status = "active"}}

\* ---- GET /api/audit/logs

\* Query strings: filters by user and action, or by dates, or a page.
QueryInputs ==
  {q \in [userId : {NoUserId, <<"ann">>}, action : {"none", "ACCESS_DENIED"},
          startDate : {NoDate, 1}, endDate : {NoDate, 1}, limit : {0, 1},
          offset : {0, 1}] :
     LET byField == q.userId # NoUserId \/ q.action # "none"
         byDate == q.startDate # NoDate \/ q.endDate # NoDate
         paged == q.limit # 0 \/ q.offset # 0
     IN  ~(byField /\ byDate) /\ ~(byField /\ paged) /\ ~(byDate /\ paged)}

\* Date ranges of the summary: all the timestamps, one instant, a tail.
RangeInputs == {<<0, MaxTime>>, <<1, 1>>, <<1, MaxTime>>}

WhereUnscoped(options, row) ==
  /\ options.userId # NoUserId => row.user_id = options.userId
  /\ options.action # "none" => row.action = options.action
  /\ options.startDate # NoDate => row.created_at >= options.startDate
  /\ options.endDate # NoDate => row.created_at <= options.endDate

\* The conditions query() joins with AND: one for each option that is set.
Where(options, row) ==
  /\ options.tenantId # NoTenant => row.tenant_id = options.tenantId
  /\ options.userId # NoUserId => row.user_id = options.userId
  /\ options.action # "none" => row.action = options.action
  /\ options.startDate # NoDate => row.created_at >= options.startDate
  /\ options.endDate # NoDate => row.created_at <= options.endDate

\* The rows of platform.audit_logs the whereClause selects, by position.
Matching(options) == {i \in DOMAIN audit_logs : Where(options, audit_logs[i])}

\* The route: tenantId from req.tenant, the rest from the query string.
\* caller is req.tenant.id.
QueryStart(caller, q) ==
  /\ logQuery.pc = "idle" /\ summary.pc = "idle"
  /\ logQuery' = [pc |-> "count", caller |-> caller,
                  options |-> [tenantId |-> caller, userId |-> q.userId,
                               action |-> q.action, startDate |-> q.startDate,
                               endDate |-> q.endDate, limit |-> q.limit,
                               offset |-> q.offset],
                  total |-> 0, logs |-> <<>>]
  /\ UNCHANGED <<authVars, poolVars, replies, summary, sagaVars, stores, adminOps, callers>>

\* SELECT COUNT(*) ... whereClause
QueryCount ==
  /\ logQuery.pc = "count"
  /\ logQuery' = [logQuery EXCEPT !.pc = "rows",
                    !.total = Cardinality(Matching(logQuery.options))]
  /\ UNCHANGED <<authVars, poolVars, replies, summary, sagaVars, stores, adminOps, callers>>

\* The orders ORDER BY created_at DESC can return the selected rows in.
Descending(rows) ==
  {o \in [1..Cardinality(rows) -> rows] :
     /\ \A i, j \in DOMAIN o : i < j =>
          /\ o[i] # o[j]
          /\ audit_logs[o[i]].created_at >= audit_logs[o[j]].created_at}

\* LIMIT $n OFFSET $m, with limit || 100 and offset || 0.
Page(ordered, limit, offset) ==
  LET n == IF limit = 0 THEN 100 ELSE limit
      last == IF offset + n < Len(ordered) THEN offset + n ELSE Len(ordered)
  IN  [i \in 1..(IF last > offset THEN last - offset ELSE 0) |->
         audit_logs[ordered[offset + i]]]

\* SELECT * ... whereClause ORDER BY created_at DESC LIMIT OFFSET, and the
\* response {data: logs, pagination: {total, ...}}.
QueryRows ==
  /\ logQuery.pc = "rows"
  /\ \E ordered \in Descending(Matching(logQuery.options)) :
       logQuery' = [logQuery EXCEPT !.pc = "done",
                      !.logs = Page(ordered, logQuery.options.limit,
                                    logQuery.options.offset)]
  /\ UNCHANGED <<authVars, poolVars, replies, summary, sagaVars, stores, adminOps, callers>>

\* ---- GET /api/audit/summary

InRangeOfAnyTenant(s, row) ==
  row.created_at >= s.startDate /\ row.created_at <= s.endDate

\* WHERE tenant_id = $1 AND created_at BETWEEN $2 AND $3
InRange(s, row) ==
  /\ row.tenant_id = s.tenantId
  /\ row.created_at >= s.startDate /\ row.created_at <= s.endDate

\* The rows the summary's WHERE clause selects, by position.
Counted(s) == {i \in DOMAIN audit_logs : InRange(s, audit_logs[i])}

\* SELECT column, COUNT(*) ... GROUP BY column, as Object.fromEntries builds it.
GroupCount(rows, column) ==
  [k \in {audit_logs[i][column] : i \in rows} |->
     Cardinality({i \in rows : audit_logs[i][column] = k})]

\* The route: tenantId from req.tenant, the dates from the query string.
\* caller is req.tenant.id; since is the number of entries when the call began.
SummaryStart(caller, startDate, endDate) ==
  /\ logQuery.pc = "idle" /\ summary.pc = "idle"
  /\ summary' = [pc |-> "total", caller |-> caller, tenantId |-> caller, startDate |-> startDate,
                 endDate |-> endDate, totalEvents |-> 0, eventsByAction |-> <<>>,
                 eventsByUser |-> <<>>, accessDenials |-> 0,
                 since |-> Len(audit_logs)]
  /\ UNCHANGED <<authVars, poolVars, replies, logQuery, sagaVars, stores, adminOps, callers>>

SummaryTotal ==
  /\ summary.pc = "total"
  /\ summary' = [summary EXCEPT !.pc = "byAction",
                   !.totalEvents = Cardinality(Counted(summary))]
  /\ UNCHANGED <<authVars, poolVars, replies, logQuery, sagaVars, stores, adminOps, callers>>

SummaryByAction ==
  /\ summary.pc = "byAction"
  /\ summary' = [summary EXCEPT !.pc = "byUser",
                   !.eventsByAction = GroupCount(Counted(summary), "action")]
  /\ UNCHANGED <<authVars, poolVars, replies, logQuery, sagaVars, stores, adminOps, callers>>

SummaryByUser ==
  /\ summary.pc = "byUser"
  /\ summary' = [summary EXCEPT !.pc = "denials",
                   !.eventsByUser =
                     GroupCount({i \in Counted(summary) :
                                   audit_logs[i].user_id # NoUserId}, "user_id")]
  /\ UNCHANGED <<authVars, poolVars, replies, logQuery, sagaVars, stores, adminOps, callers>>

SummaryDenials ==
  /\ summary.pc = "denials"
  /\ summary' = [summary EXCEPT !.pc = "done",
                   !.accessDenials =
                     Cardinality({i \in Counted(summary) :
                                    audit_logs[i].action = "ACCESS_DENIED"})]
  /\ UNCHANGED <<authVars, poolVars, replies, logQuery, sagaVars, stores, adminOps, callers>>

InitAudit ==
  /\ tenants = SeedTenants
  /\ schemas = SeedSchemas
  /\ realms = SeedRealms
  /\ audit_logs = <<>>
  /\ adminOps = 0
  /\ SagaAtRest
  /\ AuthAtRest
  /\ PoolAtRest
  /\ HandlersAtRest

NextAudit ==
  \/ \E tenantId \in ReportCallers, event \in EventInputs, at \in Times :
       LogEvent(tenantId, event, at)
  \/ \E caller \in ReportCallers, q \in QueryInputs : QueryStart(caller, q)
  \/ QueryCount
  \/ QueryRows
  \/ \E caller \in ReportCallers, range \in RangeInputs :
       SummaryStart(caller, range[1], range[2])
  \/ SummaryTotal
  \/ SummaryByAction
  \/ SummaryByUser
  \/ SummaryDenials

SpecAudit == InitAudit /\ [][NextAudit]_vars

\* --------------------------------------------------- audit report claims

\* The entries of the tenant, by position in platform.audit_logs.
EntriesOf(tenantId) == {i \in DOMAIN audit_logs : audit_logs[i].tenant_id = tenantId}

\* C21: every audit log query and audit summary served to a tenant's caller
\* carries the tenant filter set to the caller's tenant id, and whatever other
\* filters the caller gives and whatever the log holds, the rows returned are
\* entries of the caller's tenant and no count includes another tenant's entry.
C21_ReportsAreTenantScoped ==
  /\ logQuery.pc # "idle" =>
       /\ logQuery.caller \in ReportCallers
       /\ logQuery.options.tenantId = logQuery.caller
       /\ \A k \in DOMAIN logQuery.logs :
            /\ logQuery.logs[k].tenant_id = logQuery.caller
            /\ \E i \in EntriesOf(logQuery.caller) : audit_logs[i] = logQuery.logs[k]
       /\ logQuery.total <= Cardinality(EntriesOf(logQuery.caller))
  /\ summary.pc # "idle" =>
       /\ summary.caller \in ReportCallers
       /\ summary.tenantId = summary.caller
       /\ summary.totalEvents <= Cardinality(EntriesOf(summary.caller))
       /\ \A a \in DOMAIN summary.eventsByAction :
            summary.eventsByAction[a] <=
              Cardinality({i \in EntriesOf(summary.caller) : audit_logs[i].action = a})
       /\ \A u \in DOMAIN summary.eventsByUser :
            summary.eventsByUser[u] <=
              Cardinality({i \in EntriesOf(summary.caller) : audit_logs[i].user_id = u})
       /\ summary.accessDenials <=
            Cardinality({i \in EntriesOf(summary.caller) :
                           audit_logs[i].action = "ACCESS_DENIED"})

\* Tenant 1 has queried the log without filters while two of its three
\* entries belong to tenant 2: one row returned, total 1.
C21_Witness ==
  /\ logQuery.pc = "done" /\ logQuery.caller = 1
  /\ logQuery.options.userId = NoUserId /\ logQuery.options.action = "none"
  /\ logQuery.options.startDate = NoDate /\ logQuery.options.endDate = NoDate
  /\ Len(audit_logs) = 3
  /\ Cardinality(EntriesOf(2)) = 2
  /\ Len(logQuery.logs) = 1 /\ logQuery.total = 1

\* The entries of tenant A inside the range, by position.
InsideRange(tenantId, startDate, endDate) ==
  {i \in EntriesOf(tenantId) :
     audit_logs[i].created_at >= startDate /\ audit_logs[i].created_at <= endDate}

ActionsIn(rows) == {audit_logs[i].action : i \in rows}

WithAction(rows, a) == {i \in rows : audit_logs[i].action = a}

\* C22: the summary for tenant A over a date range reports, for each action,
\* the number of A's entries with that action inside the range, accessDenials
\* as the number of A's ACCESS_DENIED entries inside the range and totalEvents
\* as the number of all A's entries inside the range; entries of other tenants
\* or outside the range are not counted. Each figure is the count over the log
\* as it stands when its query runs, so a summary during which the log did
\* not change reports the counts of that log.
C22_SummaryCountsTenantEntriesInRange ==
  /\ []( (summary.pc = "done" /\ summary.since = Len(audit_logs)) =>
           LET mine == InsideRange(summary.tenantId, summary.startDate, summary.endDate)
           IN  /\ summary.totalEvents = Cardinality(mine)
               /\ DOMAIN summary.eventsByAction = ActionsIn(mine)
               /\ \A a \in ActionsIn(mine) :
                    summary.eventsByAction[a] = Cardinality(WithAction(mine, a))
               /\ summary.accessDenials = Cardinality(WithAction(mine, "ACCESS_DENIED")) )
  /\ [][ LET mine == InsideRange(summary.tenantId, summary.startDate, summary.endDate)
         IN  /\ (summary.pc = "total" /\ summary'.pc = "byAction") =>
                  summary'.totalEvents = Cardinality(mine)
             /\ (summary.pc = "byAction" /\ summary'.pc = "byUser") =>
                  /\ DOMAIN summary'.eventsByAction = ActionsIn(mine)
                  /\ \A a \in ActionsIn(mine) :
                       summary'.eventsByAction[a] = Cardinality(WithAction(mine, a))
             /\ (summary.pc = "denials" /\ summary'.pc = "done") =>
                  summary'.accessDenials = Cardinality(WithAction(mine, "ACCESS_DENIED"))
       ]_vars

\* Tenant 1's summary over the instant 1 of a log holding its own update at 0,
\* its own denial at 1 and tenant 2's denial at 1: one event, one denial.
C22_Witness ==
  /\ summary.pc = "done" /\ summary.tenantId = 1
  /\ summary.startDate = 1 /\ summary.endDate = 1
  /\ summary.since = 3 /\ Len(audit_logs) = 3
  /\ audit_logs[1].tenant_id = 1 /\ audit_logs[1].created_at = 0
  /\ audit_logs[2].tenant_id = 1 /\ audit_logs[2].created_at = 1
  /\ audit_logs[2].action = "ACCESS_DENIED"
  /\ audit_logs[3].tenant_id = 2 /\ audit_logs[3].created_at = 1
  /\ audit_logs[3].action = "ACCESS_DENIED"
  /\ summary.totalEvents = 1 /\ summary.accessDenials = 1
  /\ summary.eventsByAction = [a \in {"ACCESS_DENIED"} |-> 1]

\* The sum of the counts of a GROUP BY result (no count exceeds MaxEntries).
SumOf(counts) ==
  Cardinality({p \in (DOMAIN counts) \X (1..MaxEntries) : p[2] <= counts[p[1]]})

\* C29: every summary getTenantAuditSummary returns is internally consistent
\* even when entries of the tenant are appended while it runs: totalEvents is
\* the sum of the eventsByAction counts, and accessDenials is the
\* eventsByAction count of ACCESS_DENIED (0 when absent).
C29_SummaryInternallyConsistent ==
  summary.pc = "done" =>
    /\ summary.totalEvents = SumOf(summary.eventsByAction)
    /\ summary.accessDenials =
         (IF "ACCESS_DENIED" \in DOMAIN summary.eventsByAction
            THEN summary.eventsByAction["ACCESS_DENIED"] ELSE 0)

\* A summary of tenant 1 returned with no event in total, one denial by
\* action and two denials in accessDenials: a denial was appended after the
\* first query and another after the second.
C29_Witness ==
  /\ summary.pc = "done" /\ summary.tenantId = 1
  /\ summary.since = 0 /\ Len(audit_logs) = 2
  /\ summary.totalEvents = 0
  /\ summary.eventsByAction = [a \in {"ACCESS_DENIED"} |-> 1]
  /\ summary.accessDenials = 2

====
